---------------------------- MODULE Spec2Model ----------------------------
(***************************************************************************)
(* Model of gogotelehash:                                                  *)
(*   - IPv4net_path priority bookkeeping        (src/net_path_ipv4.go)     *)
(*   - the bridge module and its transport      (src/net_path_ipv4.go)     *)
(*   - the UDP transport and its address codec                             *)
(*                                  (src/transports/udp/udp_transport.go)  *)
(*   - udp.Config.Open, e3x.NewAddr, peer_t     (src/unnamed)              *)
(*   - IPv4net_path.UnmarshalJSON               (src/net_path_ipv4.go)     *)
(*   - the chord transport                      (src/unnamed/part_002)     *)
(* Each component has its own specification (SpecPath, SpecBridge,         *)
(* SpecUdp, ...); the variables of the other components stay at their      *)
(* initial values.                                                         *)
(***************************************************************************)
EXTENDS Integers, Sequences, FiniteSets, TLC

VARIABLES
    path,       \* the IPv4net_path: [cat, IP, Port, priority_delta]
    brk,        \* per goroutine: position inside Break ([pc, p, clean])
    pathLast,   \* the last completed call on the path and what it returned
    pathOps,    \* number of calls started on the path
    run,        \* history: delta at the start of the current run of Demote calls,
                \* the number of Demote calls in the run and of all Demote calls
    packetRoutes,    \* module.packetRoutes: token -> exchange (or nil)
    handshakeRoutes, \* module.handshakeRoutes: token -> exchange (or nil)
    rd,         \* the goroutine inside transport.ReadMessage: position and locals
    fwd,        \* history: the writes ReadMessage made on the wrapped transport
    delivered,  \* history: what ReadMessage returned to its callers
    bridgeLast, \* history: the last route-table operation and the tables before it
    bridgeOps,  \* number of route-table operations
    nread,      \* number of reads made on the wrapped transport
    wire,       \* history: what each read of the wrapped transport yielded
    routed,     \* history: the frames that had a packet route when looked up,
                \* with the two table entries of their token at that moment
    udpT,       \* the open UDP transport: [net, dest]
    uaddr,      \* the result of the last NewAddr: [err, a]
    udata,      \* the JSON produced by the last MarshalJSON of uaddr.a
    udec,       \* the result of the last decodeAddress: [data, err, a]
    usent,      \* history: the datagrams handed to WriteToUDP
    ulast,      \* history: the last WriteMessage call and what it returned
    uops,       \* number of calls made on the UDP transport and codec
    cfg,        \* the udp.Config that Open is called on
    opened,     \* the result of Config.Open: [state, err, bound, t]
    eaddr,      \* the last e3x.NewAddr call: its arguments, the caller's parts map
                \* after the call, and what it returned
    mtx,        \* peer_t.mtx: [w, r], the exclusive holder and the shared holders
    pline,      \* peer_t.line
    snd,        \* per sender: position inside snd_pkt / snd_pkt_blocking
    opening,    \* the open_line goroutines: [pending, spawned, pc]
    nsent,      \* number of packets handed to a line
    slast,      \* history: the last send and the peer before and after it
    llast,      \* history: the last activate_line / deactivate_line
    lops,       \* number of calls made on the line side of the peer
    channels,   \* peer_t.channels: id -> channel (index into chans)
    chans,      \* every channel_t made so far
    rcv,        \* position of the receiver inside push_rcv_pkt
    tk,         \* position of the ticker inside tick
    oc,         \* position of the local user inside open_channel
    rlast,      \* history: the last push_rcv_pkt and the table before and after
    tlast,      \* history: the last tick and the table before and after its delete
    cops,       \* number of calls made on the channel side of the peer
    ujson,      \* history: the last UnmarshalJSON call, the path before and after
    addressTable,   \* chord transport.addressTable: hashname -> *e3x.Addr
    cchans,     \* every channel a chord client opened or a chord handler was given
    cli,         \* position of the chord client inside its call
    hd,         \* position of the chord handler
    clast,      \* history: the last chord call or handler that returned
    chordOps    \* number of chord calls and handlers started

pathVars == <<path, brk, pathLast, pathOps, run>>

bridgeVars == <<packetRoutes, handshakeRoutes, rd, fwd, delivered, bridgeLast,
                bridgeOps, nread, wire, routed>>

udpVars == <<udpT, uaddr, udata, udec, usent, ulast, uops>>

openVars == <<cfg, opened>>

e3xVars == <<eaddr>>

lineVars == <<pline, snd, opening, nsent, slast, llast, lops>>

chanVars == <<channels, chans, rcv, tk, oc, rlast, tlast, cops>>

peerVars == <<mtx, lineVars, chanVars>>

jsonVars == <<ujson>>

chordVars == <<addressTable, cchans, cli, hd, clast, chordOps>>

\* the components added after udp.Config.Open
laterVars == <<e3xVars, peerVars, jsonVars, chordVars>>

\* everything but the peer
nonPeerVars == <<pathVars, bridgeVars, udpVars, openVars, e3xVars, jsonVars, chordVars>>

\* everything but the chord transport
nonChordVars == <<pathVars, bridgeVars, udpVars, openVars, e3xVars, peerVars, jsonVars>>

\* the variables of the components added after the first three
restVars == <<openVars, laterVars>>

vars == <<path, brk, pathLast, pathOps, run,
          packetRoutes, handshakeRoutes, rd, fwd, delivered, bridgeLast,
          bridgeOps, nread, wire, routed,
          udpT, uaddr, udata, udec, usent, ulast, uops,
          cfg, opened, eaddr,
          mtx, pline, snd, opening, nsent, slast, llast, lops,
          channels, chans, rcv, tk, oc, rlast, tlast, cops,
          ujson, addressTable, cchans, cli, hd, clast, chordOps>>

----------------------------------------------------------------------------
(* Bounds *)

NumThreads == 2
MaxPathOps == 5
MaxBridgeOps == 3
MaxUdpOps == 3
MaxChordOps == 3

MaxLineOps == 4

MaxChanOps == 4

----------------------------------------------------------------------------
(* net.IP values.  An IP is a byte slice: 4 bytes (IPv4), 16 bytes (IPv6   *)
(* or an IPv4-mapped IPv6 address), any other length (invalid), or nil.    *)
(* host 0 is the unspecified address of the family.                        *)

NilIP == [form |-> "nil", host |-> 0]
BadIP == [form |-> "bad", host |-> 0]

IPv4(h)    == [form |-> "v4", host |-> h]
IPv4in6(h) == [form |-> "v4in6", host |-> h]
IPv6(h)    == [form |-> "v6", host |-> h]

\* net.IP.To4: the 4-byte form of an IPv4 or IPv4-mapped address, else nil
To4(ip) ==
    CASE ip.form = "v4"    -> ip
      [] ip.form = "v4in6" -> IPv4(ip.host)
      [] OTHER             -> NilIP

\* net.IP.String: the textual form
IPString(ip) ==
    CASE ip.form = "nil"               -> <<"<nil>", 0>>
      [] ip.form \in {"v4", "v4in6"}   -> <<"dotted", ip.host>>
      [] ip.form = "v6"                -> <<"colon", ip.host>>
      [] OTHER                         -> <<"?hex", 0>>

\* net.ParseIP: an IPv4 text parses to the 16-byte (IPv4-mapped) form
ParseIP(str) ==
    CASE str[1] = "dotted" -> IPv4in6(str[2])
      [] str[1] = "colon"  -> IPv6(str[2])
      [] OTHER             -> NilIP

\* net.IP.IsUnspecified
IsUnspecified(ip) == ip.form \in {"v4", "v4in6", "v6"} /\ ip.host = 0

\* net.IP.Equal: an IPv4 address and its IPv4-mapped form are equal
IPEqual(x, y) ==
    CASE x.form = "nil" \/ y.form = "nil"                      -> x.form = y.form
      [] x.form \in {"v4", "v4in6"} /\ y.form \in {"v4", "v4in6"} -> x.host = y.host
      [] OTHER                                                  -> x = y

\* (*net.IPNet).Contains for a network [fam, host, all]: all is the /0 mask,
\* otherwise the mask covers every bit
Contains(ipnet, ip) ==
    LET x == IF To4(ip) # NilIP THEN To4(ip) ELSE ip
    IN  /\ x.form = ipnet.fam
        /\ ipnet.all \/ x.host = ipnet.host

\* host 0 is unspecified, host 1 is the host of the /32 networks, host 2 another
Hosts == {0, 1, 2}

IPs == {NilIP, BadIP} \cup {IPv4(h) : h \in Hosts}
         \cup {IPv4in6(h) : h \in Hosts} \cup {IPv6(h) : h \in Hosts}


----------------------------------------------------------------------------
(* IPv4net_path *)

Threads == 1..NumThreads

Categories == {"ip_localhost", "ip_lan", "ip_wan", "ip_unknown"}

\* net_path_priority: an atomic integer
priority_Get(d)    == d
priority_Add(d, i) == d + i
priority_Reset(d)  == 0

PriorityWrongLan(n) ==
    CASE n.cat = "ip_localhost" -> 8 + priority_Get(n.priority_delta)
      [] n.cat = "ip_lan"       -> 4 + priority_Get(n.priority_delta)
      [] n.cat = "ip_wan"       -> 4 + priority_Get(n.priority_delta)
      [] OTHER                  -> 0 + priority_Get(n.priority_delta)

Priority(n) ==
    CASE n.cat = "ip_localhost" -> 8 + priority_Get(n.priority_delta)
      [] n.cat = "ip_lan"       -> 6 + priority_Get(n.priority_delta)
      [] n.cat = "ip_wan"       -> 4 + priority_Get(n.priority_delta)
      [] OTHER                  -> 0 + priority_Get(n.priority_delta)

SendNatBreakerNotLocal(n) == n.cat # "ip_localhost"

SendNatBreaker(n) == n.cat = "ip_wan"

IncludeInConnect(n) == IF n.cat = "ip_wan" THEN TRUE ELSE FALSE

AddressForSeek(n) ==
    IF n.cat = "ip_wan"
    THEN [ip |-> IPString(n.IP), port |-> n.Port, ok |-> TRUE]
    ELSE [ip |-> <<"", 0>>, port |-> 0, ok |-> FALSE]

NoAddr == [ip |-> <<"", 0>>, port |-> 0, ok |-> FALSE]

Idle == [pc |-> "idle", p |-> 0, clean |-> TRUE]

\* a write of the delta by goroutine t disturbs every other goroutine that
\* has read the priority inside Break and not yet added
Disturb(t) ==
    [u \in Threads |->
        IF u # t /\ brk[u].pc = "add" THEN [brk[u] EXCEPT !.clean = FALSE]
        ELSE brk[u]]

Done(op, t, n, ok, a, cl) ==
    [op |-> op, t |-> t, ret |-> n, ok |-> ok, addr |-> a, pre |-> path,
     clean |-> cl]

CanCall(t) == brk[t].pc = "idle" /\ pathOps < MaxPathOps

PriorityCall(t) ==
    /\ CanCall(t)
    /\ pathLast' = Done("Priority", t, Priority(path), TRUE, NoAddr, TRUE)
    /\ pathOps' = pathOps + 1
    /\ UNCHANGED <<path, brk, run, bridgeVars, udpVars, restVars>>

Demote_deltaSaturating(d) == IF d > -2 THEN priority_Add(d, -1) ELSE d

Demote_delta(d) == priority_Add(d, -1)

Demote(t) ==
    /\ CanCall(t)
    /\ path' = [path EXCEPT !.priority_delta = Demote_delta(@)]
    /\ brk' = Disturb(t)
    /\ pathLast' = Done("Demote", t, 0, TRUE, NoAddr, TRUE)
    /\ pathOps' = pathOps + 1
    /\ UNCHANGED <<bridgeVars, udpVars, restVars>>
    /\ run' = [run EXCEPT !.k = @ + 1, !.dem = @ + 1]

\* Break evaluates its argument, -3 - n.Priority(), and then calls Add:
\* two steps, other goroutines may run in between
Break_read(t) ==
    /\ CanCall(t)
    /\ brk' = [brk EXCEPT ![t] = [pc |-> "add", p |-> Priority(path),
                                   clean |-> TRUE]]
    /\ pathOps' = pathOps + 1
    /\ UNCHANGED <<path, pathLast, run, bridgeVars, udpVars, restVars>>

Break_deltaFixed(d, p) == priority_Add(d, -3)

Break_delta(d, p) == priority_Add(d, -3 - p)

Break_add(t) ==
    /\ brk[t].pc = "add"
    /\ path' = [path EXCEPT !.priority_delta = Break_delta(@, brk[t].p)]
    /\ brk' = [Disturb(t) EXCEPT ![t] = Idle]
    /\ pathLast' = Done("Break", t, 0, TRUE, NoAddr, brk[t].clean)
    /\ run' = [d |-> path'.priority_delta, k |-> 0, dem |-> run.dem]
    /\ UNCHANGED <<pathOps, bridgeVars, udpVars, restVars>>

ResetPriority_deltaToScoreZero(n) == priority_Add(n.priority_delta, -Priority(n))

ResetPriority_delta(n) == priority_Reset(n.priority_delta)

ResetPriority(t) ==
    /\ CanCall(t)
    /\ path' = [path EXCEPT !.priority_delta = ResetPriority_delta(path)]
    /\ brk' = Disturb(t)
    /\ pathLast' = Done("ResetPriority", t, 0, TRUE, NoAddr, TRUE)
    /\ pathOps' = pathOps + 1
    /\ UNCHANGED <<bridgeVars, udpVars, restVars>>
    /\ run' = [d |-> path'.priority_delta, k |-> 0, dem |-> run.dem]

SendNatBreakerCall(t) ==
    /\ CanCall(t)
    /\ pathLast' = Done("SendNatBreaker", t, 0, SendNatBreaker(path), NoAddr, TRUE)
    /\ pathOps' = pathOps + 1
    /\ UNCHANGED <<path, brk, run, bridgeVars, udpVars, restVars>>

IncludeInConnectCall(t) ==
    /\ CanCall(t)
    /\ pathLast' = Done("IncludeInConnect", t, 0, IncludeInConnect(path), NoAddr, TRUE)
    /\ pathOps' = pathOps + 1
    /\ UNCHANGED <<path, brk, run, bridgeVars, udpVars, restVars>>

AddressForSeekCall(t) ==
    /\ CanCall(t)
    /\ pathLast' = Done("AddressForSeek", t, 0, AddressForSeek(path).ok,
                        AddressForSeek(path), TRUE)
    /\ pathOps' = pathOps + 1
    /\ UNCHANGED <<path, brk, run, bridgeVars, udpVars, restVars>>

InitPathVars ==
    /\ path \in [cat : Categories, IP : {IPv4(1)}, Port : {4242},
                 priority_delta : {0}]
    /\ brk = [t \in Threads |-> Idle]
    /\ pathLast = Done("none", 1, 0, TRUE, NoAddr, TRUE)
    /\ pathOps = 0
    /\ run = [d |-> 0, k |-> 0, dem |-> 0]

----------------------------------------------------------------------------
(* bridge module *)

Tokens == {1, 2}                \* cipherset.Token values of lines
ZeroToken == 0                  \* the all-zero token: no line has it

Exchanges == {1, 2}             \* *e3x.Exchange pointers
NilEx == 0                      \* the nil *e3x.Exchange

\* Go map lookup: the zero value (nil) when the key is absent
MapGet(m, k) == IF k \in DOMAIN m THEN m[k] ELSE NilEx

\* an assignment that forgets the other keys
MapSetAlone(m, k, v) == [x \in {k} |-> v]

\* m[k] = v
MapSet(m, k, v) == [x \in DOMAIN m \cup {k} |-> IF x = k THEN v ELSE m[x]]

\* delete(m, k) for every k in ks
MapDelete(m, ks) == [x \in DOMAIN m \ ks |-> m[x]]

EmptyMap == [x \in {} |-> NilEx]

Tables(op, arg) ==
    [op |-> op, arg |-> arg, preP |-> packetRoutes, preH |-> handshakeRoutes,
     source |-> NilEx, target |-> NilEx]

\* the model stops after MaxBridgeOps route-table operations and reads
CanRoute == bridgeOps + nread < MaxBridgeOps

RouteToken(token, source, target) ==
    /\ CanRoute
    /\ packetRoutes' = MapSet(packetRoutes, token, source)
    /\ handshakeRoutes' = IF target # NilEx
                          THEN MapSet(handshakeRoutes, token, target)
                          ELSE handshakeRoutes
    /\ bridgeLast' = [Tables("RouteToken", token) EXCEPT !.source = source,
                                                         !.target = target]
    /\ bridgeOps' = bridgeOps + 1
    /\ UNCHANGED <<rd, fwd, delivered, nread, wire, routed, pathVars, udpVars, restVars>>

BreakRoute(token) ==
    /\ CanRoute
    /\ packetRoutes' = MapDelete(packetRoutes, {token})
    /\ handshakeRoutes' = MapDelete(handshakeRoutes, {token})
    /\ bridgeLast' = Tables("BreakRoute", token)
    /\ bridgeOps' = bridgeOps + 1
    /\ UNCHANGED <<rd, fwd, delivered, nread, wire, routed, pathVars, udpVars, restVars>>

lookupToken(token) ==
    [source |-> MapGet(packetRoutes, token),
     target |-> MapGet(handshakeRoutes, token)]

\* a first loop that deletes from packetRoutes only
closed_loop1OneTable(P, H, x) ==
    LET dead == {t \in DOMAIN P : P[t] = x}
    IN  [p |-> MapDelete(P, dead), h |-> H]

\* the first range loop: over packetRoutes
closed_loop1(P, H, x) ==
    LET dead == {t \in DOMAIN P : P[t] = x}
    IN  [p |-> MapDelete(P, dead), h |-> MapDelete(H, dead)]

\* the second range loop: over handshakeRoutes
closed_loop2(P, H, x) ==
    LET dead == {t \in DOMAIN H : H[t] = x}
    IN  [p |-> MapDelete(P, dead), h |-> MapDelete(H, dead)]

closed_tablesPacketOnly(P, H, x) ==
    LET dead == {t \in DOMAIN P : P[t] = x}
    IN  [p |-> MapDelete(P, dead), h |-> MapDelete(H, dead)]

closed_tables(P, H, x) ==
    LET one == closed_loop1(P, H, x)
    IN  closed_loop2(one.p, one.h, x)

on_exchange_closed(x) ==
    /\ CanRoute
    /\ packetRoutes' = closed_tables(packetRoutes, handshakeRoutes, x).p
    /\ handshakeRoutes' = closed_tables(packetRoutes, handshakeRoutes, x).h
    /\ bridgeLast' = Tables("on_exchange_closed", x)
    /\ bridgeOps' = bridgeOps + 1
    /\ UNCHANGED <<rd, fwd, delivered, nread, wire, routed, pathVars, udpVars, restVars>>

----------------------------------------------------------------------------
(* bridge transport: ReadMessage wraps the ReadMessage of another transport *)

\* frames the wrapped transport can yield: byte 1 and byte 2 are HEAD_LEN,
\* byte 3 stands for the token bytes, byte 4 for the rest of the frame
Body == 7
Frames ==
    {<<0>>} \cup
    {<<h[1], h[2], tok, Body>> : h \in {<<0, 0>>, <<0, 1>>, <<1, 1>>}, tok \in Tokens}

Stale == 9
FreshBuffer == <<Stale, Stale, Stale, Stale, Stale>>   \* the caller's p

Srcs == {"peerA", "peerB"}      \* source addresses of inbound frames
NilAddr == "nil"

\* cipherset.ExtractToken
ExtractToken(buf) == IF Len(buf) >= 3 THEN buf[3] ELSE ZeroToken

\* (*e3x.Exchange).ActivePath
ActivePath(ex) == <<"active", ex>>

\* copy of frame f into buffer b: the bytes after the frame keep their value
Fill(b, f) == [i \in 1..Len(b) |-> IF i <= Len(f) THEN f[i] ELSE b[i]]

RdIdle ==
    [pc |-> "idle", p |-> FreshBuffer, n |-> 0, src |-> NilAddr, id |-> 0,
     source |-> NilEx, target |-> NilEx, ex |-> NilEx, msgtype |-> "PKT"]

\* n, src, err = t.t.ReadMessage(p): the wrapped transport fails
ReadMessage_read_err ==
    /\ rd.pc \in {"idle", "read"}
    /\ CanRoute
    /\ nread' = nread + 1
    /\ rd' = [RdIdle EXCEPT !.p = IF rd.pc = "idle" THEN FreshBuffer ELSE rd.p]
    /\ delivered' = Append(delivered,
                       [id |-> nread', n |-> 0, src |-> NilAddr, err |-> TRUE])
    /\ wire' = Append(wire, [err |-> TRUE, f |-> <<>>, src |-> NilAddr])
    /\ UNCHANGED <<packetRoutes, handshakeRoutes, fwd, bridgeLast, bridgeOps,
                   routed, pathVars, udpVars, restVars>>

\* n, src, err = t.t.ReadMessage(p): the wrapped transport yields a frame
ReadMessage_read(f, src) ==
    /\ rd.pc \in {"idle", "read"}
    /\ CanRoute
    /\ nread' = nread + 1
    /\ rd' = [RdIdle EXCEPT
                !.pc = "lookup",
                !.p = Fill(IF rd.pc = "idle" THEN FreshBuffer ELSE rd.p, f),
                !.n = Len(f), !.src = src, !.id = nread']
    /\ wire' = Append(wire, [err |-> FALSE, f |-> f, src |-> src])
    /\ UNCHANGED <<packetRoutes, handshakeRoutes, fwd, delivered, bridgeLast,
                   bridgeOps, routed, pathVars, udpVars, restVars>>

\* buf := p[:n]
buf(r) == SubSeq(r.p, 1, r.n)

\* lines 276-283: detect the message type and pick the exchange
ex_forSource(b, source, target) == source

IsHDR(b) == b[1] = 0 /\ b[2] = 1

ex_for(b, source, target) == IF IsHDR(b) THEN target ELSE source

\* a frame counts as bridged when either table has its token
bridgedEither(l) == l.source # NilEx \/ l.target # NilEx

\* line 271: a frame is bridged when the packet-route table has its token
bridged(l) == l.source # NilEx

\* lines 263-283: token lookup and the choice of the exchange to forward to
ReadMessage_lookup ==
    /\ rd.pc = "lookup"
    /\ LET token == ExtractToken(buf(rd))
           l     == lookupToken(token)
       IN  IF ~bridged(l)
           THEN \* not a bridged message
                /\ rd' = [rd EXCEPT !.pc = "idle"]
                /\ delivered' = Append(delivered,
                                   [id |-> rd.id, n |-> rd.n, src |-> rd.src,
                                    err |-> FALSE])
           ELSE /\ UNCHANGED delivered
                /\ IF Len(buf(rd)) < 2 /\ buf(rd)[1] = 0
                   THEN \* buf[1]: index out of range
                        rd' = [rd EXCEPT !.pc = "panic", !.source = l.source,
                                         !.target = l.target]
                   ELSE rd' = [rd EXCEPT
                                 !.pc = "forward",
                                 !.source = l.source, !.target = l.target,
                                 !.msgtype = IF IsHDR(buf(rd)) THEN "HDR" ELSE "PKT",
                                 !.ex = ex_for(buf(rd), l.source, l.target)]
    /\ routed' = IF MapGet(packetRoutes, ExtractToken(wire[rd.id].f)) # NilEx
                 THEN routed \cup
                      {[id |-> rd.id,
                        source |-> MapGet(packetRoutes, ExtractToken(wire[rd.id].f)),
                        target |-> MapGet(handshakeRoutes, ExtractToken(wire[rd.id].f))]}
                 ELSE routed
    /\ UNCHANGED <<packetRoutes, handshakeRoutes, fwd, bridgeLast, bridgeOps,
                   nread, wire, pathVars, udpVars, restVars>>

\* a loop that returns to its caller when the write fails
forward_nextSurfaces(err) == IF err THEN "idle" ELSE "read"

\* lines 287-294: the error is logged and the loop reads the next frame
forward_next(err) == "read"

\* line 286: err = t.t.WriteMessage(buf, ex.ActivePath()); a nil ex is a nil
\* pointer dereference
ReadMessage_forward(err) ==
    /\ rd.pc = "forward"
    /\ IF rd.ex = NilEx
       THEN /\ rd' = [rd EXCEPT !.pc = "panic"]
            /\ UNCHANGED fwd
       ELSE /\ fwd' = Append(fwd, [id |-> rd.id, buf |-> buf(rd),
                                   dst |-> ActivePath(rd.ex), err |-> err])
            /\ rd' = [rd EXCEPT !.pc = forward_next(err)]
    /\ UNCHANGED <<packetRoutes, handshakeRoutes, delivered, bridgeLast,
                   bridgeOps, nread, wire, routed, pathVars, udpVars, restVars>>

InitBridgeVars ==
    /\ packetRoutes = EmptyMap
    /\ handshakeRoutes = EmptyMap
    /\ rd = RdIdle
    /\ fwd = <<>>
    /\ delivered = <<>>
    /\ bridgeLast = [op |-> "none", arg |-> 0, preP |-> EmptyMap, preH |-> EmptyMap,
                     source |-> NilEx, target |-> NilEx]
    /\ bridgeOps = 0
    /\ nread = 0
    /\ wire = <<>>
    /\ routed = {}

----------------------------------------------------------------------------
(* UDP transport *)

UDPv4 == "udp4"
UDPv6 == "udp6"
MaxPort == 65535
Ports == {0, 1, MaxPort - 1, MaxPort}      \* uint16 values

NoUdpAddr == [net |-> "", IP |-> NilIP, Port |-> 0]

\* NewAddr(ip, port): [err, a]
NewAddr(ip, port) ==
    IF ip = NilIP \/ port = 0
    THEN [err |-> "udp: invalid address", a |-> NoUdpAddr]
    ELSE [err |-> "nil",
          a |-> [net |-> IF To4(ip) = NilIP THEN UDPv6 ELSE UDPv4,
                 IP |-> ip, Port |-> port]]

\* (*addr).MarshalJSON: the JSON object {"type":..,"ip":..,"port":..}
MarshalJSON(a) ==
    <<"{", <<"type", a.net>>, <<"ip", IPString(a.IP)>>, <<"port", a.Port>>, "}">>

\* json.Unmarshal into desc: [err, Type, IP, Port]
Unmarshal(data) ==
    IF Len(data) = 5 /\ data[1] = "{" /\ data[5] = "}"
    THEN [err |-> FALSE, Type |-> data[2][2], IP |-> data[3][2], Port |-> data[4][2]]
    ELSE [err |-> TRUE, Type |-> "", IP |-> <<"", 0>>, Port |-> 0]

decodeAddress(data) ==
    LET desc == Unmarshal(data)
        ip   == ParseIP(desc.IP)
    IN  IF desc.err THEN [err |-> "ErrInvalidAddr", a |-> NoUdpAddr]
        ELSE IF ip = NilIP \/ IsUnspecified(ip)
             THEN [err |-> "ErrInvalidAddr", a |-> NoUdpAddr]
        ELSE IF desc.Port <= 0 \/ desc.Port >= MaxPort
             THEN [err |-> "ErrInvalidAddr", a |-> NoUdpAddr]
        ELSE [err |-> "nil", a |-> [net |-> desc.Type, IP |-> ip, Port |-> desc.Port]]

\* (*addr).Equal
Equal(a, b) == IPEqual(a.IP, b.IP) /\ a.Port = b.Port

\* the values a transports.Addr handed to WriteMessage can have
UdpAddrs == [net : {UDPv4, UDPv6}, IP : IPs, Port : {1}]
OtherAddr == [kind |-> "other", a |-> NoUdpAddr]   \* an Addr of another transport
NilPtr == [kind |-> "nilptr", a |-> NoUdpAddr]     \* a nil *addr
Dsts == {OtherAddr, NilPtr} \cup {[kind |-> "addr", a |-> a] : a \in UdpAddrs}

\* the destination networks Config.Open accepts for each network
Nets == {[fam |-> f, host |-> 1, all |-> al] : f \in {"v4", "v6"}, al \in BOOLEAN}
Transports == {[net |-> UDPv4, dest |-> n] : n \in {m \in Nets : m.fam = "v4"}}
         \cup {[net |-> UDPv6, dest |-> n] : n \in {m \in Nets : m.fam = "v6"}}

CanUdp == uops < MaxUdpOps

NewAddrCall(ip, port) ==
    /\ CanUdp
    /\ uaddr' = NewAddr(ip, port)
    /\ uops' = uops + 1
    /\ UNCHANGED <<udpT, udata, udec, usent, ulast, pathVars, bridgeVars, restVars>>

MarshalJSONCall ==
    /\ CanUdp
    /\ uaddr.err = "nil"
    /\ udata' = MarshalJSON(uaddr.a)
    /\ uops' = uops + 1
    /\ UNCHANGED <<udpT, uaddr, udec, usent, ulast, pathVars, bridgeVars, restVars>>

decodeAddressCall ==
    /\ CanUdp
    /\ udata # <<>>
    /\ udec' = [data |-> udata] @@ decodeAddress(udata)
    /\ uops' = uops + 1
    /\ UNCHANGED <<udpT, uaddr, udata, usent, ulast, pathVars, bridgeVars, restVars>>

\* the checks WriteMessage makes before it writes
WriteMessage_rejectsNoNet(t, dst) ==
    \/ dst.kind # "addr"
    \/ ~Contains(t.dest, dst.a.IP)

WriteMessage_rejects(t, dst) ==
    \/ dst.kind # "addr"
    \/ dst.a.net # t.net
    \/ ~Contains(t.dest, dst.a.IP)

\* outcome is what c.WriteToUDP does: "ok", "err" or "short"
WriteMessage(dst, outcome) ==
    /\ CanUdp
    /\ uops' = uops + 1
    /\ IF WriteMessage_rejects(udpT, dst)
       THEN /\ ulast' = [op |-> "WriteMessage", dst |-> dst, err |-> "ErrInvalidAddr",
                         before |-> Len(usent)]
            /\ UNCHANGED usent
       ELSE /\ usent' = Append(usent, [p |-> "payload", to |-> dst.a])
            /\ ulast' = [op |-> "WriteMessage", dst |-> dst, before |-> Len(usent),
                         err |-> CASE outcome = "err"   -> "write error"
                                   [] outcome = "short" -> "ErrShortWrite"
                                   [] OTHER             -> "nil"]
    /\ UNCHANGED <<udpT, uaddr, udata, udec, pathVars, bridgeVars, restVars>>

InitUdpVars ==
    /\ udpT \in Transports
    /\ uaddr = [err |-> "none", a |-> NoUdpAddr]
    /\ udata = <<>>
    /\ udec = [data |-> <<>>, err |-> "none", a |-> NoUdpAddr]
    /\ usent = <<>>
    /\ ulast = [op |-> "none", dst |-> NilPtr, err |-> "nil", before |-> 0]
    /\ uops = 0

----------------------------------------------------------------------------
(* udp.Config.Open *)

\* values of Config.Network
Networks == {"", UDPv4, UDPv6, "tcp"}

\* values of Config.Addr: empty, a port alone, an IP literal with a port of
\* either family, an IP literal without a port, and text that is no address
AddrStrs == {"", ":0", "127.0.0.1:0", "[::1]:0", "127.0.0.1", "garbage"}

\* values of Config.Dest: empty, a CIDR of either family, text that is no CIDR
DestStrs == {"", "0.0.0.0/0", "10.0.0.1/32", "::0/0", "fe80::1/128", "garbage"}

Configs == [Network : Networks, Addr : AddrStrs, Dest : DestStrs]

\* net.ResolveUDPAddr(network, addr): [err, IP].  For an IP literal of the
\* other family the resolver either fails (strict) or returns the literal.
ResolveUDPAddr(network, a, strict) ==
    CASE a = ":0"          -> [err |-> FALSE, IP |-> NilIP]
      [] a = "127.0.0.1:0" -> IF network = UDPv6 /\ strict
                              THEN [err |-> TRUE, IP |-> NilIP]
                              ELSE [err |-> FALSE, IP |-> IPv4in6(1)]
      [] a = "[::1]:0"     -> IF network = UDPv4 /\ strict
                              THEN [err |-> TRUE, IP |-> NilIP]
                              ELSE [err |-> FALSE, IP |-> IPv6(1)]
      [] OTHER             -> [err |-> TRUE, IP |-> NilIP]

\* net.ParseCIDR(dest): [err, ipnet], ipnet as [fam, host, all]
ParseCIDR(d) ==
    CASE d = "0.0.0.0/0"   -> [err |-> FALSE, ipnet |-> [fam |-> "v4", host |-> 0, all |-> TRUE]]
      [] d = "10.0.0.1/32" -> [err |-> FALSE, ipnet |-> [fam |-> "v4", host |-> 1, all |-> FALSE]]
      [] d = "::0/0"       -> [err |-> FALSE, ipnet |-> [fam |-> "v6", host |-> 0, all |-> TRUE]]
      [] d = "fe80::1/128" -> [err |-> FALSE, ipnet |-> [fam |-> "v6", host |-> 1, all |-> FALSE]]
      [] OTHER             -> [err |-> TRUE, ipnet |-> [fam |-> "", host |-> 0, all |-> FALSE]]

\* ipnet.IP of a parsed network: 4 bytes for an IPv4 network, 16 for IPv6
IPNetIP(ipnet) == IF ipnet.fam = "v4" THEN IPv4(ipnet.host) ELSE IPv6(ipnet.host)

NoTransport == [net |-> "", laddr |-> NilIP, dest |-> [fam |-> "", host |-> 0, all |-> FALSE]]

Failed(e) == [state |-> "done", err |-> e, bound |-> FALSE, t |-> NoTransport]

\* lines 96-108: the defaults
Open_defaultsDestV4(c) ==
    LET n == IF c.Network = "" THEN UDPv4 ELSE c.Network
    IN  [Network |-> n,
         Addr    |-> IF c.Addr = "" THEN ":0" ELSE c.Addr,
         Dest    |-> IF c.Dest = "" THEN "0.0.0.0/0" ELSE c.Dest]

Open_defaults(c) ==
    LET n == IF c.Network = "" THEN UDPv4 ELSE c.Network
    IN  [Network |-> n,
         Addr    |-> IF c.Addr = "" THEN ":0" ELSE c.Addr,
         Dest    |-> IF c.Dest = ""
                     THEN (IF n = UDPv4 THEN "0.0.0.0/0" ELSE "::0/0")
                     ELSE c.Dest]

\* Config.Open: strict is the resolver's treatment of a literal of the other
\* family, listen the outcome of net.ListenUDP
Open_result(c0, strict, listen) ==
    LET c     == Open_defaults(c0)
        addr  == ResolveUDPAddr(c.Network, c.Addr, strict)
        cidr  == ParseCIDR(c.Dest)
    IN  IF c.Network # UDPv4 /\ c.Network # UDPv6
        THEN Failed("udp: Network must be either udp4 or udp6")
        ELSE IF addr.err THEN Failed("resolve error")
        ELSE IF c.Network = UDPv4 /\ addr.IP # NilIP /\ To4(addr.IP) = NilIP
             THEN Failed("udp: expected a IPv4 address")
        ELSE IF c.Network = UDPv6 /\ addr.IP # NilIP /\ To4(addr.IP) # NilIP
             THEN Failed("udp: expected a IPv6 address")
        ELSE IF cidr.err THEN Failed("cidr error")
        ELSE IF c.Network = UDPv4 /\ To4(IPNetIP(cidr.ipnet)) = NilIP
             THEN Failed("udp: expected a IPv4 network")
        ELSE IF c.Network = UDPv6 /\ To4(IPNetIP(cidr.ipnet)) # NilIP
             THEN Failed("udp: expected a IPv6 network")
        ELSE IF ~listen
             THEN [state |-> "done", err |-> "listen error", bound |-> TRUE,
                   t |-> NoTransport]
        ELSE [state |-> "done", err |-> "nil", bound |-> TRUE,
              t |-> [net |-> c.Network, laddr |-> addr.IP, dest |-> cidr.ipnet]]

Open(strict, listen) ==
    /\ opened.state = "none"
    /\ opened' = Open_result(cfg, strict, listen)
    /\ UNCHANGED <<cfg, pathVars, bridgeVars, udpVars, laterVars>>

\* the caller takes another Config
NewConfig(c) ==
    /\ opened.state = "done"
    /\ cfg' = c
    /\ opened' = [state |-> "none", err |-> "nil", bound |-> FALSE, t |-> NoTransport]
    /\ UNCHANGED <<pathVars, bridgeVars, udpVars, laterVars>>

InitOpenVars ==
    /\ cfg = [Network |-> "", Addr |-> "", Dest |-> ""]
    /\ opened = [state |-> "none", err |-> "nil", bound |-> FALSE, t |-> NoTransport]

----------------------------------------------------------------------------
(* e3x.Addr *)

KeyVals == {"ka", "kb"}

\* cipherset.Keys: a Go map, nil and empty alike have length 0
KeyMaps == UNION {[D -> KeyVals] : D \in SUBSET {1, 2}}

\* hex(SHA256(key)) for a key of the map
PartFromKey(k) == [hex |-> TRUE, of |-> k]

\* the parts a caller can pass: the part of a key, the part of some other
\* key, and a string that is not hex
PartVals == {PartFromKey("ka"), [hex |-> TRUE, of |-> "kx"], [hex |-> FALSE, of |-> "zz"]}

NilParts == [nil |-> TRUE, m |-> [c \in {} |-> PartFromKey("ka")]]

PartMaps ==
    {NilParts} \cup
    {[nil |-> FALSE, m |-> f] : f \in UNION {[D -> PartVals] : D \in SUBSET {1, 3}}}

AddrLists == {<<>>, <<"udp4:10.0.0.1:4242">>}

\* hashname.PartsFromKeys: the intermediate of every key
PartsFromKeys(keys) == [c \in DOMAIN keys |-> PartFromKey(keys[c])]

\* rolling hash over the (csid, intermediate) pairs in ascending csid order;
\* SHA-256 is modelled as injective, so the digest is the list of what went in
RECURSIVE Roll(_, _, _)
Roll(seed, parts, todo) ==
    IF todo = {} THEN seed
    ELSE LET c == CHOOSE x \in todo : \A y \in todo : x <= y
         IN  Roll(Append(seed, [csid |-> c, inter |-> parts[c].of]), parts, todo \ {c})

\* hashname.FromIntermediates
FromIntermediates(parts) ==
    IF DOMAIN parts = {} THEN [err |-> "hashname: no parts", h |-> <<>>]
    ELSE IF \E c \in DOMAIN parts : ~parts[c].hex
         THEN [err |-> "hashname: invalid part", h |-> <<>>]
    ELSE [err |-> "nil", h |-> Roll(<<>>, parts, DOMAIN parts)]

NilE3xAddr == [nil |-> TRUE, hashname |-> <<>>, keys |-> <<>>, parts |-> <<>>, addrs |-> <<>>]

\* the two length checks, address list first
NewAddr_lengthsAddrsFirst(keys, addrs) ==
    IF Len(addrs) = 0 THEN "ErrNoAddress"
    ELSE IF DOMAIN keys = {} THEN "ErrNoKeys"
    ELSE "nil"

\* the two length checks of e3x.NewAddr
NewAddr_lengths(keys, addrs) ==
    IF DOMAIN keys = {} THEN "ErrNoKeys"
    ELSE IF Len(addrs) = 0 THEN "ErrNoAddress"
    ELSE "nil"

\* a merge in which the caller's part wins
NewAddr_partsCallerWins(keys, parts) ==
    LET fromKeys == PartsFromKeys(keys)
    IN  [c \in DOMAIN parts.m \cup DOMAIN fromKeys |->
            IF c \in DOMAIN parts.m THEN parts.m[c] ELSE fromKeys[c]]

\* addr.parts after the loop over PartsFromKeys: a nil map is made first, then
\* addr.parts[csid] = part for every key
NewAddr_parts(keys, parts) ==
    LET fromKeys == PartsFromKeys(keys)
    IN  [c \in DOMAIN parts.m \cup DOMAIN fromKeys |->
            IF c \in DOMAIN fromKeys THEN fromKeys[c] ELSE parts.m[c]]

\* e3x.NewAddr(keys, parts, addrs). addr.parts is the caller's map, so the
\* caller sees the merged parts whether or not the hashname could be derived.
E3xNewAddr(keys, parts, addrs) ==
    LET e      == NewAddr_lengths(keys, addrs)
        merged == NewAddr_parts(keys, parts)
        hn     == FromIntermediates(merged)
    IN  /\ eaddr' =
              IF e # "nil"
              THEN [called |-> TRUE, keys |-> keys, parts |-> parts, addrs |-> addrs,
                    callerParts |-> parts, err |-> e, addr |-> NilE3xAddr]
              ELSE [called |-> TRUE, keys |-> keys, parts |-> parts, addrs |-> addrs,
                    callerParts |-> IF parts.nil THEN parts
                                    ELSE [nil |-> FALSE, m |-> merged],
                    err |-> hn.err,
                    addr |-> IF hn.err # "nil" THEN NilE3xAddr
                             ELSE [nil |-> FALSE, hashname |-> hn.h, keys |-> keys,
                                   parts |-> merged, addrs |-> addrs]]
        /\ UNCHANGED <<pathVars, bridgeVars, udpVars, openVars, peerVars,
                       jsonVars, chordVars>>

InitE3xVars ==
    eaddr = [called |-> FALSE, keys |-> <<>>, parts |-> NilParts, addrs |-> <<>>,
             callerParts |-> NilParts, err |-> "nil", addr |-> NilE3xAddr]

----------------------------------------------------------------------------
(* peer_t: the line, the mutex and the senders *)

NilLine == 0

NilChan == 0

\* make(map[string]*channel_t, 100)
EmptyChannels == [x \in {} |-> NilChan]

Lines == {1, 2}

Senders == {"s1", "s2"}

\* p.mtx.Lock() returns: nobody holds the sync.RWMutex
CanLock == mtx.w = "none" /\ mtx.r = {}

\* p.mtx.RLock() returns: nobody holds it exclusively
CanRLock == mtx.w = "none"

SndIdle == [pc |-> "idle", op |-> "none", line |-> NilLine, sig |-> FALSE,
            waited |-> FALSE]

\* what the claims about a send compare before and after the call
Snap(l, ch, n, o) == [line |-> l, channels |-> ch, nsent |-> n, spawned |-> o]

CanLine == lops < MaxLineOps

\* a Broadcast that wakes nobody
cnd_BroadcastNone(s) == s

\* p.cnd.Broadcast(): every task on the notify list is signalled
cnd_Broadcast(s) ==
    [t \in Senders |-> IF s[t].pc \in {"wait", "asleep"}
                       THEN [s[t] EXCEPT !.sig = TRUE] ELSE s[t]]

\* a test that finds a line in every peer
snd_pkt_hasLineAlways(l) == TRUE

\* p.line != nil
snd_pkt_hasLine(l) == l # NilLine

\* snd_pkt up to the call of p.line.snd_pkt: with no line it returns
\* errNoOpenLine and the deferred Unlock runs
snd_pkt_call(t) ==
    /\ CanLine
    /\ snd[t].pc = "idle"
    /\ CanLock
    /\ lops' = lops + 1
    /\ IF ~snd_pkt_hasLine(pline)
       THEN /\ slast' = [t |-> t, op |-> "snd_pkt", err |-> "errNoOpenLine",
                         line |-> NilLine,
                         pre |-> Snap(pline, channels, nsent, opening.spawned),
                         post |-> Snap(pline, channels, nsent, opening.spawned)]
            /\ UNCHANGED <<snd, mtx>>
       ELSE /\ snd' = [snd EXCEPT ![t] = [pc |-> "sending", op |-> "snd_pkt",
                                          line |-> pline, sig |-> FALSE,
                                          waited |-> FALSE]]
            /\ mtx' = [mtx EXCEPT !.w = t]
            /\ slast' = [t |-> t, op |-> "snd_pkt", err |-> "pending",
                         line |-> pline,
                         pre |-> Snap(pline, channels, nsent, opening.spawned),
                         post |-> Snap(pline, channels, nsent, opening.spawned)]
    /\ UNCHANGED <<pline, opening, nsent, llast, chanVars, nonPeerVars>>

\* p.line.snd_pkt(pkt) returns and the deferred Unlock runs
snd_pkt_return(t, err) ==
    /\ snd[t].pc = "sending"
    /\ snd[t].op = "snd_pkt"
    /\ nsent' = nsent + 1
    /\ mtx' = [mtx EXCEPT !.w = "none"]
    /\ snd' = [snd EXCEPT ![t] = SndIdle]
    /\ slast' = [t |-> t, op |-> "snd_pkt", err |-> err, line |-> snd[t].line,
                 pre |-> slast.pre,
                 post |-> Snap(pline, channels, nsent + 1, opening.spawned)]
    /\ UNCHANGED <<pline, opening, llast, lops, chanVars, nonPeerVars>>

\* the loop of snd_pkt_blocking, entered with the shared lock held: cnd.Wait
\* puts the task on the notify list before it releases the lock
blocking_loop(waited) ==
    IF pline = NilLine
    THEN [pc |-> "wait", op |-> "snd_pkt_blocking", line |-> NilLine, sig |-> FALSE,
          waited |-> waited]
    ELSE [pc |-> "sending", op |-> "snd_pkt_blocking", line |-> pline, sig |-> FALSE,
          waited |-> waited]

\* snd_pkt_blocking: RLock, go p.open_line() when there is no line, then the loop
snd_pkt_blocking_call(t) ==
    /\ CanLine
    /\ snd[t].pc = "idle"
    /\ CanRLock
    /\ lops' = lops + 1
    /\ mtx' = [mtx EXCEPT !.r = @ \cup {t}]
    /\ opening' = IF pline = NilLine
                  THEN [opening EXCEPT !.pending = @ + 1, !.spawned = @ + 1]
                  ELSE opening
    /\ snd' = [snd EXCEPT ![t] = blocking_loop(FALSE)]
    /\ UNCHANGED <<pline, nsent, slast, llast, chanVars, nonPeerVars>>

\* cnd.Wait: c.L.Unlock(), here the RUnlock of the shared lock
cnd_Wait_unlock(t) ==
    /\ snd[t].pc = "wait"
    /\ mtx' = [mtx EXCEPT !.r = @ \ {t}]
    /\ snd' = [snd EXCEPT ![t].pc = "asleep"]
    /\ UNCHANGED <<pline, opening, nsent, slast, llast, lops, chanVars, nonPeerVars>>

\* cnd.Wait returns: the signalled task takes the shared lock again and the
\* loop tests p.line once more
cnd_Wait_wake(t) ==
    /\ snd[t].pc = "asleep"
    /\ snd[t].sig
    /\ CanRLock
    /\ mtx' = [mtx EXCEPT !.r = @ \cup {t}]
    /\ snd' = [snd EXCEPT ![t] = blocking_loop(TRUE)]
    /\ UNCHANGED <<pline, opening, nsent, slast, llast, lops, chanVars, nonPeerVars>>

\* p.line.snd_pkt(pkt) returns and the deferred RUnlock runs
snd_pkt_blocking_return(t, err) ==
    /\ snd[t].pc = "sending"
    /\ snd[t].op = "snd_pkt_blocking"
    /\ nsent' = nsent + 1
    /\ mtx' = [mtx EXCEPT !.r = @ \ {t}]
    /\ snd' = [snd EXCEPT ![t] = SndIdle]
    /\ slast' = [t |-> t, op |-> "snd_pkt_blocking", err |-> err, line |-> snd[t].line,
                 pre |-> Snap(pline, channels, nsent, opening.spawned),
                 post |-> Snap(pline, channels, nsent + 1, opening.spawned)]
    /\ UNCHANGED <<pline, opening, llast, lops, chanVars, nonPeerVars>>

\* a goroutine started by snd_pkt_blocking runs open_line: it takes the
\* exclusive lock and sends the open packet
open_line_lock ==
    /\ opening.pending > 0
    /\ opening.pc = "idle"
    /\ CanLock
    /\ mtx' = [mtx EXCEPT !.w = "open"]
    /\ opening' = [opening EXCEPT !.pending = @ - 1, !.pc = "sending"]
    /\ UNCHANGED <<pline, snd, nsent, slast, llast, lops, chanVars, nonPeerVars>>

\* the open packet is out and the deferred Unlock runs
open_line_return ==
    /\ opening.pc = "sending"
    /\ mtx' = [mtx EXCEPT !.w = "none"]
    /\ opening' = [opening EXCEPT !.pc = "idle"]
    /\ UNCHANGED <<pline, snd, nsent, slast, llast, lops, chanVars, nonPeerVars>>

activate_line(l) ==
    /\ CanLine
    /\ CanLock
    /\ lops' = lops + 1
    /\ pline' = l
    /\ snd' = cnd_Broadcast(snd)
    /\ llast' = [op |-> "activate_line", arg |-> l, pre |-> pline, prev |-> llast.op,
                 prevArg |-> llast.arg]
    /\ UNCHANGED <<mtx, opening, nsent, slast, chanVars, nonPeerVars>>

\* a deactivate_line that clears whatever line is active
deactivate_line_clearsAny(l) == TRUE

\* deactivate_line clears p.line only if it is the line passed
deactivate_line_clears(l) == pline = l

deactivate_line(l) ==
    /\ CanLine
    /\ CanLock
    /\ lops' = lops + 1
    /\ IF deactivate_line_clears(l)
       THEN pline' = NilLine /\ snd' = cnd_Broadcast(snd)
       ELSE UNCHANGED <<pline, snd>>
    /\ llast' = [op |-> "deactivate_line", arg |-> l, pre |-> pline, prev |-> llast.op,
                 prevArg |-> llast.arg]
    /\ UNCHANGED <<mtx, opening, nsent, slast, chanVars, nonPeerVars>>

InitLineVars ==
    /\ pline = NilLine
    /\ mtx = [w |-> "none", r |-> {}]
    /\ snd = [t \in Senders |-> SndIdle]
    /\ opening = [pending |-> 0, spawned |-> 0, pc |-> "idle"]
    /\ nsent = 0
    /\ slast = [t |-> "none", op |-> "none", err |-> "nil", line |-> NilLine,
                pre |-> Snap(NilLine, EmptyChannels, 0, 0),
                post |-> Snap(NilLine, EmptyChannels, 0, 0)]
    /\ llast = [op |-> "none", arg |-> NilLine, pre |-> NilLine, prev |-> "none",
                prevArg |-> NilLine]
    /\ lops = 0

----------------------------------------------------------------------------
(* peer_t: the channel table, push_rcv_pkt, open_channel and tick *)

ChanIds == {"c1"}

\* the ids make_channel draws for the channels opened locally
LocalIds == <<"l1">>

\* pkt.hdr: C, Seq (unset, 0 or a later number) and Type
Pkts == [C : {""} \cup ChanIds, seq : {"unset", "0", "1"}, typ : {"", "t"}]

NoPkt == [C |-> "", seq |-> "unset", typ |-> ""]

\* a channel_t as far as the peer looks at it
Channel(id, typ, initiator) ==
    [id |-> id, typ |-> typ, initiator |-> initiator, closed |-> FALSE, handlers |-> 0]

\* p.channels[id], nil when the id is not a key
chan_get(m, id) == IF id \in DOMAIN m THEN m[id] ELSE NilChan

\* p.channels[id] = c
chan_set(m, id, c) == [x \in DOMAIN m \cup {id} |-> IF x = id THEN c ELSE m[x]]

\* no call is made once the program has stopped
CanChan == cops < MaxChanOps /\ rcv.pc # "fatal"

\* push_rcv_pkt reads p.channels without p.mtx: while open_channel or tick is
\* in its critical section writing the map the read is a data race, which
\* returns the entry, misses it, or stops the program
ReadOutcomes ==
    IF oc.pc = "writing" \/ tk.pc = "deleting"
    THEN {"value", "miss", "fatal"} ELSE {"value"}

TableSnap == [channels |-> channels, chans |-> chans]

\* reg: the channel the table held under pkt.hdr.C when make_channel returned
RcvIdle == [pc |-> "idle", pkt |-> NoPkt, ch |-> NilChan]

Rcvd(pkt, err, to, made, pre, postC, postN) ==
    [pkt |-> pkt, err |-> err, to |-> to, made |-> made, pre |-> pre,
     reg |-> IF made = NilChan THEN NilChan ELSE chan_get(postC, pkt.C),
     post |-> [channels |-> postC, chans |-> postN]]

\* pkt.hdr.Seq.IsSet() && pkt.hdr.Seq.Get() == 0, with a type
first_packet(pkt) == pkt.seq = "0" /\ pkt.typ # ""

\* push_rcv_pkt up to the call of p.make_channel
push_rcv_pkt(pkt, read, derr) ==
    /\ CanChan
    /\ rcv.pc = "idle"
    /\ read \in ReadOutcomes
    /\ cops' = cops + 1
    /\ LET ch == IF read = "miss" THEN NilChan ELSE chan_get(channels, pkt.C)
       IN  IF pkt.C = ""
           THEN /\ rlast' = Rcvd(pkt, "errInvalidPkt", NilChan, NilChan, TableSnap,
                                 channels, chans)
                /\ UNCHANGED rcv
           ELSE IF read = "fatal"
           THEN /\ rcv' = [rcv EXCEPT !.pc = "fatal", !.pkt = pkt]
                /\ rlast' = Rcvd(pkt, "fatal", NilChan, NilChan, TableSnap,
                                 channels, chans)
           ELSE IF ch # NilChan
           THEN /\ rlast' = Rcvd(pkt, IF derr THEN "channel error" ELSE "nil", ch,
                                 NilChan, TableSnap, channels, chans)
                /\ UNCHANGED rcv
           ELSE IF first_packet(pkt)
           THEN /\ rcv' = [pc |-> "make", pkt |-> pkt, ch |-> NilChan]
                /\ rlast' = Rcvd(pkt, "pending", NilChan, NilChan, TableSnap,
                                 channels, chans)
           ELSE /\ rlast' = Rcvd(pkt, "errInvalidPkt", NilChan, NilChan, TableSnap,
                                 channels, chans)
                /\ UNCHANGED rcv
    /\ UNCHANGED <<channels, chans, tk, oc, tlast, mtx, lineVars, nonPeerVars>>

\* p.make_channel(pkt.hdr.C, pkt.hdr.Type, false): under the exclusive lock
\* the channel is made and put in the table
push_rcv_pkt_make(mkerr) ==
    /\ rcv.pc = "make"
    /\ CanLock
    /\ IF mkerr
       THEN /\ rcv' = RcvIdle
            /\ rlast' = Rcvd(rcv.pkt, "make_channel error", NilChan, NilChan,
                             rlast.pre, channels, chans)
            /\ UNCHANGED <<channels, chans>>
       ELSE /\ chans' = Append(chans, Channel(rcv.pkt.C, rcv.pkt.typ, FALSE))
            /\ channels' = chan_set(channels, rcv.pkt.C, Len(chans) + 1)
            /\ rcv' = [rcv EXCEPT !.pc = "deliver", !.ch = Len(chans) + 1]
            /\ rlast' = Rcvd(rcv.pkt, "pending", NilChan, Len(chans) + 1,
                             rlast.pre, channels', chans')
    /\ UNCHANGED <<tk, oc, tlast, cops, mtx, lineVars, nonPeerVars>>

\* channel.push_rcv_pkt(pkt), then go channel.run_user_handler()
push_rcv_pkt_deliver(derr) ==
    /\ rcv.pc = "deliver"
    /\ rcv' = RcvIdle
    /\ chans' = IF derr THEN chans
                ELSE [chans EXCEPT ![rcv.ch].handlers = @ + 1]
    /\ rlast' = [Rcvd(rcv.pkt, IF derr THEN "channel error" ELSE "nil", rcv.ch, rcv.ch,
                       rlast.pre, channels, chans') EXCEPT !.reg = rlast.reg]
    /\ UNCHANGED <<channels, tk, oc, tlast, cops, mtx, lineVars, nonPeerVars>>

\* open_channel: p.make_channel("", pkt.hdr.Type, true) takes the lock
open_channel_lock ==
    /\ CanChan
    /\ oc.pc = "idle"
    /\ oc.n < Len(LocalIds)
    /\ CanLock
    /\ cops' = cops + 1
    /\ mtx' = [mtx EXCEPT !.w = "user"]
    /\ oc' = [oc EXCEPT !.pc = "writing"]
    /\ UNCHANGED <<channels, chans, rcv, tk, rlast, tlast, lineVars, nonPeerVars>>

\* make_channel draws an id and puts the channel in the table, the lock is
\* released and channel.snd_pkt(pkt) sends the first packet
open_channel_register(mkerr) ==
    /\ oc.pc = "writing"
    /\ mtx' = [mtx EXCEPT !.w = "none"]
    /\ IF mkerr
       THEN /\ oc' = [oc EXCEPT !.pc = "idle"]
            /\ UNCHANGED <<channels, chans>>
       ELSE /\ chans' = Append(chans, Channel(LocalIds[oc.n + 1], "t", TRUE))
            /\ channels' = chan_set(channels, LocalIds[oc.n + 1], Len(chans) + 1)
            /\ oc' = [pc |-> "idle", n |-> oc.n + 1]
    /\ UNCHANGED <<rcv, tk, rlast, tlast, cops, lineVars, nonPeerVars>>

TickIdle == [pc |-> "idle", snapshot |-> {}, todo |-> {}, closed |-> {}, reported |-> {}]

\* tick: the channels are copied under the lock
tick_snapshot ==
    /\ CanChan
    /\ tk.pc = "idle"
    /\ CanLock
    /\ cops' = cops + 1
    /\ LET cs == {channels[id] : id \in DOMAIN channels}
       IN  tk' = [pc |-> "scan", snapshot |-> cs, todo |-> cs, closed |-> {},
                  reported |-> {}]
    /\ UNCHANGED <<channels, chans, rcv, oc, rlast, tlast, mtx, lineVars, nonPeerVars>>

\* one round of the loop over the copy: snd_ack, the two deadline checks,
\* which can break the channel, and is_closed
tick_channel(c, broken) ==
    /\ tk.pc = "scan"
    /\ c \in tk.todo
    /\ chans' = [chans EXCEPT ![c].closed = @ \/ broken]
    /\ tk' = [tk EXCEPT !.todo = @ \ {c},
                        !.closed = IF chans'[c].closed THEN @ \cup {chans[c].id} ELSE @,
                        !.reported = IF chans'[c].closed THEN @ \cup {c} ELSE @]
    /\ UNCHANGED <<channels, rcv, oc, rlast, tlast, cops, mtx, lineVars, nonPeerVars>>

\* after the loop: with nothing closed tick returns, else it takes the lock
tick_lock ==
    /\ tk.pc = "scan"
    /\ tk.todo = {}
    /\ IF tk.closed = {}
       THEN /\ tk' = TickIdle
            /\ tlast' = [done |-> TRUE, pre |-> channels, post |-> channels,
                         snapshot |-> tk.snapshot, reported |-> tk.reported]
            /\ UNCHANGED mtx
       ELSE /\ CanLock
            /\ mtx' = [mtx EXCEPT !.w = "tick"]
            /\ tk' = [tk EXCEPT !.pc = "deleting"]
            /\ UNCHANGED tlast
    /\ UNCHANGED <<channels, chans, rcv, oc, rlast, cops, lineVars, nonPeerVars>>

\* the second critical section deletes the ids collected
tick_delete ==
    /\ tk.pc = "deleting"
    /\ channels' = [id \in DOMAIN channels \ tk.closed |-> channels[id]]
    /\ mtx' = [mtx EXCEPT !.w = "none"]
    /\ tk' = TickIdle
    /\ tlast' = [done |-> TRUE, pre |-> channels, post |-> channels',
                 snapshot |-> tk.snapshot, reported |-> tk.reported]
    /\ UNCHANGED <<chans, rcv, oc, rlast, cops, lineVars, nonPeerVars>>

InitChanVars ==
    /\ channels = EmptyChannels
    /\ chans = <<>>
    /\ rcv = RcvIdle
    /\ tk = TickIdle
    /\ oc = [pc |-> "idle", n |-> 0]
    /\ rlast = Rcvd(NoPkt, "none", NilChan, NilChan,
                    [channels |-> EmptyChannels, chans |-> <<>>], EmptyChannels, <<>>)
    /\ tlast = [done |-> FALSE, pre |-> EmptyChannels, post |-> EmptyChannels,
                snapshot |-> {}, reported |-> {}]
    /\ cops = 0

----------------------------------------------------------------------------
(* IPv4net_path.UnmarshalJSON *)

\* a JSON value of a member: absent, a string or a number
JAbsent == [k |-> "absent", s |-> "", n |-> 0]
JStr(s) == [k |-> "string", s |-> s, n |-> 0]
JNum(n) == [k |-> "number", s |-> "", n |-> n]

\* the documents handed to UnmarshalJSON: text that is not JSON, and objects
\* with the members ip and port absent, of the right type or of the wrong one
JsonDocs ==
    {[syntax |-> FALSE, ip |-> JAbsent, port |-> JAbsent]} \cup
    [syntax : {TRUE},
     ip     : {JAbsent, JStr(""), JStr("10.0.0.2"), JStr("::1"), JNum(7)},
     port   : {JAbsent, JNum(0), JNum(4242), JStr("4242")}]

\* json.Unmarshal(data, &j): an absent member leaves the zero value, a member
\* of the wrong type is an error
json_Unmarshal(doc) ==
    IF ~doc.syntax
    THEN [err |-> "syntax error", j |-> [IP |-> "", Port |-> 0]]
    ELSE IF doc.ip.k = "number" \/ doc.port.k = "string"
    THEN [err |-> "type error", j |-> [IP |-> "", Port |-> 0]]
    ELSE [err |-> "nil", j |-> [IP |-> doc.ip.s, Port |-> doc.port.n]]

NotParsed == [kind |-> "none", o |-> [cat |-> "ip_unknown", IP |-> NilIP,
                                      Port |-> 0, priority_delta |-> 0]]

\* what ParseIPnet_path can return for host:port: an error, a path of another
\* type, or a new IPv4net_path
ParseOutcomes(j) ==
    {[NotParsed EXCEPT !.kind = "error"], [NotParsed EXCEPT !.kind = "other"]} \cup
    {[kind |-> "ipv4", o |-> o] :
        o \in [cat : {"ip_lan", "ip_wan"}, IP : {IPv4(2)}, Port : {j.Port},
               priority_delta : {0}]}

\* lines 108-110: the parser is reached only with a decoded ip and port
UnmarshalJSON_parses(doc) ==
    LET d == json_Unmarshal(doc)
    IN  d.err = "nil" /\ d.j.IP # "" /\ d.j.Port # 0

\* an UnmarshalJSON that clears the receiver's delta before it parses
UnmarshalJSON_resultClears(n, doc, parsed) ==
    IF ~UnmarshalJSON_parses(doc)
    THEN [err |-> "Invalid IPv4 netpath", n |-> n]
    ELSE IF parsed.kind = "ipv4"
    THEN [err |-> "nil", n |-> parsed.o]
    ELSE [err |-> "Invalid IPv4 netpath", n |-> [n EXCEPT !.priority_delta = 0]]

\* the error UnmarshalJSON returns and the receiver it leaves
UnmarshalJSON_result(n, doc, parsed) ==
    LET d == json_Unmarshal(doc)
    IN  IF d.err # "nil"
        THEN [err |-> d.err, n |-> n]
        ELSE IF d.j.IP = "" \/ d.j.Port = 0
        THEN [err |-> "Invalid IPv4 netpath", n |-> n]
        ELSE IF parsed.kind = "error"
        THEN [err |-> "parse error", n |-> n]
        ELSE IF parsed.kind = "ipv4"
        THEN [err |-> "nil", n |-> parsed.o]      \* *n = *o
        ELSE [err |-> "Invalid IPv4 netpath", n |-> n]

UnmarshalJSON(t, doc, parsed) ==
    LET res == UnmarshalJSON_result(path, doc, parsed)
    IN  /\ CanCall(t)
        /\ parsed \in IF UnmarshalJSON_parses(doc)
                      THEN ParseOutcomes(json_Unmarshal(doc).j)
                      ELSE {NotParsed}
        /\ path' = res.n
        /\ brk' = Disturb(t)
        /\ pathOps' = pathOps + 1
        /\ run' = IF res.err = "nil"
                  THEN [d |-> res.n.priority_delta, k |-> 0, dem |-> run.dem]
                  ELSE run
        /\ ujson' = [called |-> TRUE, doc |-> doc, parsed |-> parsed,
                     err |-> res.err, pre |-> path, post |-> res.n]
        /\ UNCHANGED <<pathLast, bridgeVars, udpVars, openVars, e3xVars,
                       peerVars, chordVars>>

InitJsonVars ==
    ujson = [called |-> FALSE, doc |-> [syntax |-> FALSE, ip |-> JAbsent, port |-> JAbsent],
             parsed |-> NotParsed, err |-> "nil", pre |-> NotParsed.o,
             post |-> NotParsed.o]

----------------------------------------------------------------------------
(* chord transport: the address table, the client calls and the handlers *)

ChordHosts == {"h1", "h2"}

\* a nil *e3x.Addr
NilAddrPtr == [nil |-> TRUE, hashname |-> ""]

\* the *e3x.Addr of a host
AddrOf(h) == [nil |-> FALSE, hashname |-> h]

\* a nil *completeVnode
NilVnode == [nil |-> TRUE, Id |-> "", Addr |-> NilAddrPtr]

\* the completeVnode values a peer can send: the id is hex or not, the
\* address is present or null
CompleteVnodes ==
    {NilVnode} \cup
    [nil : {FALSE}, Id : {"0a", "zz"}, Addr : {NilAddrPtr, AddrOf("h2")}]

\* the lists of completeVnode a peer can send
VnodeLists ==
    {<<>>} \cup {<<c>> : c \in CompleteVnodes} \cup
    {<<[nil |-> FALSE, Id |-> "0a", Addr |-> AddrOf("h1")], c>> :
        c \in {[nil |-> FALSE, Id |-> "zz", Addr |-> AddrOf("h2")],
               [nil |-> FALSE, Id |-> "0a", Addr |-> NilAddrPtr]}}

\* a lookup that hands out the address of h1 for an unknown host
lookupAddrDefault(table, hn) ==
    IF hn \in DOMAIN table THEN table[hn] ELSE AddrOf("h1")

\* t.addressTable[hn]: nil for an absent key
lookupAddr(table, hn) ==
    IF hn \in DOMAIN table THEN table[hn] ELSE NilAddrPtr

\* hex.DecodeString(c.Id) succeeds
IsHex(id) == id = "0a"

\* internalVnode: nil in, nil out; an id that is not hex gives nil; else the
\* address is registered under c.Addr.Hashname(), which panics for a nil Addr
internalVnode(table, c) ==
    IF c.nil \/ ~IsHex(c.Id)
    THEN [table |-> table, panic |-> FALSE]
    ELSE IF c.Addr.nil
    THEN [table |-> table, panic |-> TRUE]
    ELSE [table |-> MapSet(table, c.Addr.hashname, c.Addr), panic |-> FALSE]

\* internalVnodes: the loop stops at the first id that is not hex and keeps
\* what it registered before
RECURSIVE internalVnodes(_, _)
internalVnodes(table, cs) ==
    IF cs = <<>>
    THEN [table |-> table, panic |-> FALSE]
    ELSE LET c == Head(cs)
         IN  IF c.nil
             THEN internalVnodes(table, Tail(cs))
             ELSE IF ~IsHex(c.Id)
             THEN [table |-> table, panic |-> FALSE]
             ELSE IF c.Addr.nil
             THEN [table |-> table, panic |-> TRUE]
             ELSE internalVnodes(MapSet(table, c.Addr.hashname, c.Addr), Tail(cs))

ClientOps == {"ListVnodes", "Ping", "GetPredecessor", "Notify",
              "FindSuccessors", "ClearPredecessor", "SkipSuccessor"}

\* the ways a client call can go once its channel is open
ClientOutcomes(op) ==
    IF op \in {"ClearPredecessor", "SkipSuccessor"}
    THEN {"write error", "ok"}
    ELSE {"write error", "read error", "ok"}

\* what a client call does with the answer it decoded
client_result(table, op, res) ==
    IF op \in {"ListVnodes", "Notify", "FindSuccessors"}
    THEN internalVnodes(table, res)
    ELSE IF op = "GetPredecessor" /\ res # <<>>
    THEN internalVnode(table, Head(res))
    ELSE [table |-> table, panic |-> FALSE]

\* the ways a handler can go
HandlerOutcomes(op) ==
    {"read error", "ok"}
    \cup (IF op \in {"ListVnodes", "Ping", "GetPredecessor", "Notify", "FindSuccessors"}
          THEN {"write error"} ELSE {})
    \cup (IF op \in {"GetPredecessor", "Notify", "ClearPredecessor", "SkipSuccessor"}
          THEN {"no RPC"} ELSE {})
    \cup (IF op \in {"GetPredecessor", "Notify", "FindSuccessors",
                     "ClearPredecessor", "SkipSuccessor"}
          THEN {"rpc error"} ELSE {})

\* the handlers that pass t.internalVnode(req.Self) to the RPC
handler_registers(op, outcome) ==
    /\ op \in {"Notify", "ClearPredecessor", "SkipSuccessor"}
    /\ outcome \in {"rpc error", "write error", "ok"}

\* a Close that is skipped on the error paths
deferred_CloseOnSuccess(c, outcome) ==
    IF outcome = "ok" THEN [c EXCEPT !.open = FALSE] ELSE c

\* defer ch.Close(): runs on every way out of the function, a panic included
deferred_Close(c, outcome) == [c EXCEPT !.open = FALSE]

ChordIdle == [pc |-> "idle", op |-> "none", host |-> "", ch |-> 0, pre |-> EmptyMap]

\* a panic that is not recovered ends the process
Crashed == cli.pc = "panic" \/ hd.pc = "panic"

CanChord == ~Crashed /\ chordOps < MaxChordOps

Returned(who, c, err, post) ==
    [who |-> who, host |-> c.host, err |-> err, ch |-> c.ch,
     pre |-> c.pre, post |-> post]

\* lookupAddr and the return of ErrNoAddress; completeVnode(self), which
\* Notify, ClearPredecessor and SkipSuccessor call first, only reads the table
client_call(op, host) ==
    LET addr == lookupAddr(addressTable, host)
        c    == [ChordIdle EXCEPT !.op = op, !.host = host, !.pre = addressTable]
    IN  /\ CanChord
        /\ cli.pc = "idle"
        /\ chordOps' = chordOps + 1
        /\ IF addr.nil
           THEN /\ cli' = ChordIdle
                /\ UNCHANGED cchans
                /\ clast' = Returned("client", c, "ErrNoAddress", addressTable)
           ELSE /\ cli' = [c EXCEPT !.pc = "open"]
                /\ UNCHANGED <<cchans, clast>>
        /\ UNCHANGED <<addressTable, hd, nonChordVars>>

\* t.e.Open(addr, type, true)
client_open(err) ==
    /\ ~Crashed
    /\ cli.pc = "open"
    /\ IF err
       THEN /\ cli' = ChordIdle
            /\ UNCHANGED cchans
            /\ clast' = Returned("client", cli, "open error", addressTable)
       ELSE /\ cchans' = Append(cchans, [by |-> "client", open |-> TRUE])
            /\ cli' = [cli EXCEPT !.pc = "io", !.ch = Len(cchans) + 1]
            /\ UNCHANGED clast
    /\ UNCHANGED <<addressTable, hd, chordOps, nonChordVars>>

\* the writes and reads on the open channel, the registration of the vnodes
\* in the answer, the deferred Close and the return
client_finish(outcome, res) ==
    LET r == IF outcome = "ok"
             THEN client_result(addressTable, cli.op, res)
             ELSE [table |-> addressTable, panic |-> FALSE]
    IN  /\ ~Crashed
        /\ cli.pc = "io"
        /\ outcome \in ClientOutcomes(cli.op)
        /\ ~(outcome = "ok" /\ cli.op \in {"ListVnodes", "Notify", "FindSuccessors",
                                           "GetPredecessor"}) => res = <<>>
        /\ addressTable' = r.table
        /\ cchans' = [cchans EXCEPT ![cli.ch] = deferred_Close(@, outcome)]
        /\ IF r.panic
           THEN cli' = [cli EXCEPT !.pc = "panic"] /\ UNCHANGED clast
           ELSE /\ cli' = ChordIdle
                /\ clast' = Returned("client", cli,
                                     IF outcome = "ok" THEN "nil" ELSE outcome,
                                     r.table)
        /\ UNCHANGED <<hd, chordOps, nonChordVars>>

\* the endpoint hands a new channel of the handler's type to the handler
handler_start(op) ==
    /\ CanChord
    /\ hd.pc = "idle"
    /\ chordOps' = chordOps + 1
    /\ cchans' = Append(cchans, [by |-> "handler", open |-> TRUE])
    /\ hd' = [ChordIdle EXCEPT !.pc = "run", !.op = op, !.ch = Len(cchans) + 1]
    /\ UNCHANGED <<addressTable, cli, clast, nonChordVars>>

\* the body of the handler, its deferred Close and its return
handler_finish(outcome, self) ==
    LET r == IF handler_registers(hd.op, outcome)
             THEN internalVnode(addressTable, self)
             ELSE [table |-> addressTable, panic |-> FALSE]
    IN  /\ ~Crashed
        /\ hd.pc = "run"
        /\ outcome \in HandlerOutcomes(hd.op)
        /\ ~handler_registers(hd.op, outcome) => self = NilVnode
        /\ addressTable' = r.table
        /\ cchans' = [cchans EXCEPT ![hd.ch] = deferred_Close(@, outcome)]
        /\ IF r.panic
           THEN hd' = [hd EXCEPT !.pc = "panic"] /\ UNCHANGED clast
           ELSE /\ hd' = ChordIdle
                /\ clast' = Returned("handler", [hd EXCEPT !.pre = r.table],
                                     IF outcome = "ok" THEN "nil" ELSE outcome,
                                     r.table)
        /\ UNCHANGED <<cli, chordOps, nonChordVars>>

\* newTransport registers the local address when the endpoint has one
InitChordVars ==
    /\ addressTable \in {EmptyMap, MapSet(EmptyMap, "h1", AddrOf("h1"))}
    /\ cchans = <<>>
    /\ cli = ChordIdle
    /\ hd = ChordIdle
    /\ clast = [who |-> "none", host |-> "", err |-> "nil", ch |-> 0,
                pre |-> EmptyMap, post |-> EmptyMap]
    /\ chordOps = 0

----------------------------------------------------------------------------
(* Specifications *)

OneTransport == udpT = [net |-> UDPv4, dest |-> [fam |-> "v4", host |-> 1, all |-> TRUE]]

NoLocalAddr == addressTable = EmptyMap

InitRest ==
    /\ InitOpenVars /\ InitE3xVars /\ InitLineVars /\ InitChanVars
    /\ InitJsonVars /\ InitChordVars /\ NoLocalAddr

InitPath == InitPathVars /\ InitBridgeVars /\ InitUdpVars /\ OneTransport /\ InitRest

NextPath ==
    \E t \in Threads :
        \/ PriorityCall(t)
        \/ Demote(t)
        \/ Break_read(t)
        \/ Break_add(t)
        \/ ResetPriority(t)
        \/ SendNatBreakerCall(t)
        \/ IncludeInConnectCall(t)
        \/ AddressForSeekCall(t)

SpecPath == InitPath /\ [][NextPath]_vars

NextJson ==
    \E t \in Threads :
        \/ Demote(t)
        \/ \E doc \in JsonDocs :
              \E parsed \in ParseOutcomes(json_Unmarshal(doc).j) \cup {NotParsed} :
                  UnmarshalJSON(t, doc, parsed)

SpecJson == InitPath /\ [][NextJson]_vars

InitBridge ==
    /\ InitPathVars /\ path.cat = "ip_wan" /\ InitBridgeVars /\ InitUdpVars /\ OneTransport
    /\ InitRest

NextRoutes ==
    \/ \E token \in Tokens, source, target \in Exchanges \cup {NilEx} :
          RouteToken(token, source, target)
    \/ \E token \in Tokens : BreakRoute(token)
    \/ \E x \in Exchanges : on_exchange_closed(x)

SpecRoutes == InitBridge /\ [][NextRoutes]_vars

NextBridge ==
    \/ \E token \in Tokens, source, target \in Exchanges \cup {NilEx} :
          RouteToken(token, source, target)
    \/ \E token \in Tokens : BreakRoute(token)
    \/ \E x \in Exchanges : on_exchange_closed(x)
    \/ ReadMessage_read_err
    \/ \E f \in Frames, src \in Srcs : ReadMessage_read(f, src)
    \/ ReadMessage_lookup
    \/ \E err \in BOOLEAN : ReadMessage_forward(err)

SpecBridge == InitBridge /\ [][NextBridge]_vars

InitUdp ==
    InitPathVars /\ path.cat = "ip_wan" /\ InitBridgeVars /\ InitUdpVars /\ InitRest

NextUdp ==
    \/ \E ip \in IPs, port \in Ports : NewAddrCall(ip, port)
    \/ MarshalJSONCall
    \/ decodeAddressCall
    \/ \E dst \in Dsts, outcome \in {"ok", "err", "short"} : WriteMessage(dst, outcome)

SpecUdp == InitUdp /\ [][NextUdp]_vars

NextOpen ==
    \/ \E strict, listen \in BOOLEAN : Open(strict, listen)
    \/ \E c \in Configs : NewConfig(c)

SpecOpen == InitBridge /\ [][NextOpen]_vars

NextAddr ==
    \E keys \in KeyMaps, parts \in PartMaps, addrs \in AddrLists :
        E3xNewAddr(keys, parts, addrs)

SpecAddr == InitBridge /\ [][NextAddr]_vars

NextLine ==
    \/ \E t \in Senders :
          \/ snd_pkt_call(t)
          \/ \E err \in {"nil", "line error"} : snd_pkt_return(t, err)
          \/ snd_pkt_blocking_call(t)
          \/ cnd_Wait_unlock(t)
          \/ cnd_Wait_wake(t)
          \/ \E err \in {"nil", "line error"} : snd_pkt_blocking_return(t, err)
    \/ open_line_lock
    \/ open_line_return
    \/ \E l \in Lines : activate_line(l)
    \/ \E l \in Lines : deactivate_line(l)

SpecLine == InitBridge /\ [][NextLine]_vars

\* the scheduler runs every goroutine that can take a step: a task inside
\* a send or inside cnd.Wait goes on, and open_line gets the lock
FairLine ==
    /\ \A t \in Senders :
          /\ WF_vars(\E err \in {"nil", "line error"} : snd_pkt_return(t, err))
          /\ WF_vars(\E err \in {"nil", "line error"} : snd_pkt_blocking_return(t, err))
          /\ WF_vars(cnd_Wait_unlock(t))
          /\ WF_vars(cnd_Wait_wake(t))
    /\ WF_vars(open_line_lock)
    /\ WF_vars(open_line_return)

SpecLineLive == SpecLine /\ FairLine

NextChan ==
    \/ \E pkt \in Pkts, read \in {"value", "miss", "fatal"}, derr \in BOOLEAN :
          push_rcv_pkt(pkt, read, derr)
    \/ \E mkerr \in BOOLEAN : push_rcv_pkt_make(mkerr)
    \/ \E derr \in BOOLEAN : push_rcv_pkt_deliver(derr)
    \/ open_channel_lock
    \/ \E mkerr \in BOOLEAN : open_channel_register(mkerr)
    \/ tick_snapshot
    \/ \E c \in 1..MaxChanOps, broken \in BOOLEAN : tick_channel(c, broken)
    \/ tick_lock
    \/ tick_delete

SpecChan == InitBridge /\ [][NextChan]_vars

InitChord ==
    /\ InitPathVars /\ path.cat = "ip_wan" /\ InitBridgeVars /\ InitUdpVars /\ OneTransport
    /\ InitOpenVars /\ InitE3xVars /\ InitLineVars /\ InitChanVars
    /\ InitJsonVars /\ InitChordVars

NextChord ==
    \/ \E op \in ClientOps, host \in ChordHosts : client_call(op, host)
    \/ \E err \in BOOLEAN : client_open(err)
    \/ \E outcome \in {"write error", "read error", "ok"}, res \in VnodeLists :
          client_finish(outcome, res)
    \/ \E op \in ClientOps : handler_start(op)
    \/ \E outcome \in {"read error", "no RPC", "rpc error", "write error", "ok"},
          self \in CompleteVnodes :
          handler_finish(outcome, self)

SpecChord == InitChord /\ [][NextChord]_vars

----------------------------------------------------------------------------
(* Properties *)

\* the writes made for the frame of read id
WritesOf(id) == {i \in DOMAIN fwd : fwd[i].id = id}

\* C1: a frame whose token has a non-nil packet route when it is looked up is
\* never returned to the caller of ReadMessage: its bytes are written exactly
\* once, unmodified, to the active path of an exchange, and the reader stays
\* in its loop.
C1_RoutedFrameForwardedOnce ==
    \A r \in routed :
        /\ \A i \in DOMAIN delivered : delivered[i].id # r.id
        /\ rd.id = r.id => rd.pc \in {"forward", "read"}
        /\ IF rd.id = r.id /\ rd.pc = "forward"
           THEN WritesOf(r.id) = {}
           ELSE /\ Cardinality(WritesOf(r.id)) = 1
                /\ \A i \in WritesOf(r.id) :
                      /\ fwd[i].buf = wire[r.id].f
                      /\ \E x \in Exchanges : fwd[i].dst = ActivePath(x)

\* C2: a routed handshake frame (first two bytes 0x00 0x01) is forwarded to
\* the exchange the handshake-route table held for its token when it was
\* looked up, every other routed frame to the exchange the packet-route table
\* held.
C2_HandshakeFollowsHandshakeRoute ==
    \A i \in DOMAIN fwd :
        \E r \in routed :
            /\ r.id = fwd[i].id
            /\ LET f == wire[r.id].f
               IN  IF Len(f) >= 2 /\ f[1] = 0 /\ f[2] = 1
                   THEN fwd[i].dst = ActivePath(r.target)
                   ELSE fwd[i].dst = ActivePath(r.source)

C2_Witness ==
    \E i \in DOMAIN fwd :
        \E r \in routed :
            /\ r.id = fwd[i].id
            /\ wire[r.id].f[1] = 0 /\ wire[r.id].f[2] = 1
            /\ r.target # r.source
            /\ r.target # NilEx
            /\ fwd[i].dst = ActivePath(r.target)

\* C3: after on_exchange_closed(X) neither table holds X; every token that
\* referenced X in either table is gone from both; every other token keeps
\* both of its entries.
C3_ClosedExchangeUnrouted ==
    bridgeLast.op = "on_exchange_closed" =>
        LET x == bridgeLast.arg
            P == bridgeLast.preP
            H == bridgeLast.preH
            refs == {t \in DOMAIN P : P[t] = x} \cup {t \in DOMAIN H : H[t] = x}
        IN  /\ \A t \in DOMAIN packetRoutes : packetRoutes[t] # x
            /\ \A t \in DOMAIN handshakeRoutes : handshakeRoutes[t] # x
            /\ \A t \in refs : t \notin DOMAIN packetRoutes /\ t \notin DOMAIN handshakeRoutes
            /\ \A t \in Tokens \ refs :
                  /\ t \in DOMAIN P <=> t \in DOMAIN packetRoutes
                  /\ t \in DOMAIN H <=> t \in DOMAIN handshakeRoutes
                  /\ t \in DOMAIN P => packetRoutes[t] = P[t]
                  /\ t \in DOMAIN H => handshakeRoutes[t] = H[t]

C3_Witness ==
    /\ bridgeLast.op = "on_exchange_closed"
    /\ \E t \in DOMAIN bridgeLast.preP :
          /\ bridgeLast.preP[t] # bridgeLast.arg
          /\ t \in DOMAIN bridgeLast.preH
          /\ bridgeLast.preH[t] = bridgeLast.arg
          /\ t \notin DOMAIN packetRoutes
    /\ \E t \in DOMAIN packetRoutes : packetRoutes[t] # NilEx

\* C4: Priority returns the category score (8 localhost, 6 LAN, 4 WAN, 0
\* otherwise) plus the priority delta; with delta 0 exactly the score.
C4_PriorityIsScorePlusDelta ==
    pathLast.op = "Priority" =>
        /\ path.cat = "ip_localhost" => pathLast.ret = 8 + path.priority_delta
        /\ path.cat = "ip_lan"       => pathLast.ret = 6 + path.priority_delta
        /\ path.cat = "ip_wan"       => pathLast.ret = 4 + path.priority_delta
        /\ path.cat = "ip_unknown"   => pathLast.ret = path.priority_delta
        /\ path.priority_delta = 0 =>
              pathLast.ret = (CASE path.cat = "ip_localhost" -> 8
                                [] path.cat = "ip_lan"       -> 6
                                [] path.cat = "ip_wan"       -> 4
                                [] OTHER                     -> 0)

C4_Witness ==
    /\ pathLast.op = "Priority"
    /\ path.cat = "ip_lan"
    /\ path.priority_delta = -2
    /\ pathLast.ret = 4

\* the category score the claims speak of
ClaimedScore(cat) ==
    CASE cat = "ip_localhost" -> 8
      [] cat = "ip_lan"       -> 6
      [] cat = "ip_wan"       -> 4
      [] OTHER                -> 0

\* C5: a Break that no other update of the path interleaves with leaves the
\* priority at exactly -3, whatever the category and the delta before; a
\* further Break of a path at -3 leaves it at -3.
C5_BreakLeavesMinusThree ==
    pathLast.op = "Break" /\ pathLast.clean =>
        /\ ClaimedScore(path.cat) + path.priority_delta = -3
        /\ path.priority_delta =
              pathLast.pre.priority_delta
                - (3 + ClaimedScore(path.cat) + pathLast.pre.priority_delta)
        /\ ClaimedScore(path.cat) + pathLast.pre.priority_delta = -3 =>
              path.priority_delta = pathLast.pre.priority_delta

C5_Witness ==
    /\ pathLast.op = "Break" /\ pathLast.clean
    /\ ClaimedScore(path.cat) + pathLast.pre.priority_delta = -3
    /\ ClaimedScore(path.cat) + path.priority_delta = -3
    /\ path.cat = "ip_lan"

\* C6: ResetPriority sets the delta to 0, so the priority is the category
\* score again, and leaves category, IP and port alone.
C6_ResetRestoresScore ==
    pathLast.op = "ResetPriority" =>
        /\ path.priority_delta = 0
        /\ Priority(path) = ClaimedScore(path.cat)
        /\ path.cat = pathLast.pre.cat
        /\ path.IP = pathLast.pre.IP
        /\ path.Port = pathLast.pre.Port

C6_Witness ==
    /\ pathLast.op = "ResetPriority"
    /\ pathLast.pre.priority_delta = -4 - ClaimedScore(path.cat)
    /\ path.priority_delta = 0

\* C7: every Demote lowers the priority by exactly 1: after k Demote calls,
\* by whichever goroutines, on a path with delta d the priority is
\* score + d - k.
C7_DemoteLowersByOne ==
    /\ Priority(path) = ClaimedScore(path.cat) + run.d - run.k
    /\ pathLast.op = "Demote" =>
          path.priority_delta = pathLast.pre.priority_delta - 1

C7_Witness ==
    /\ pathLast.op = "Demote"
    /\ run.k = 3
    /\ run.d < 0
    /\ \E t \in Threads : t # pathLast.t /\ brk[t].pc = "add"

\* C8: SendNatBreaker, IncludeInConnect and AddressForSeek answer true
\* exactly for a WAN path, whatever the priority delta.
C8_WanOnly ==
    /\ pathLast.op \in {"SendNatBreaker", "IncludeInConnect", "AddressForSeek"} =>
          pathLast.ok = (path.cat = "ip_wan")
    /\ pathLast.op = "AddressForSeek" =>
          pathLast.addr = IF path.cat = "ip_wan"
                          THEN [ip |-> IPString(path.IP), port |-> path.Port, ok |-> TRUE]
                          ELSE [ip |-> <<"", 0>>, port |-> 0, ok |-> FALSE]

C8_Witness ==
    /\ pathLast.op = "SendNatBreaker"
    /\ path.cat = "ip_wan"
    /\ Priority(path) = -3
    /\ pathLast.ok

\* C9: WriteMessage returns ErrInvalidAddr and sends nothing when the
\* destination is not a UDP address, carries another network tag than the
\* transport, or has an IP outside Config.Dest; it hands a datagram to the
\* socket only when all three checks pass.
C9_WriteOnlyToDest ==
    ulast.op = "WriteMessage" =>
        LET d   == ulast.dst
            bad == \/ d.kind # "addr"
                   \/ d.a.net # udpT.net
                   \/ ~Contains(udpT.dest, d.a.IP)
        IN  /\ bad => ulast.err = "ErrInvalidAddr" /\ Len(usent) = ulast.before
            /\ ~bad => /\ Len(usent) = ulast.before + 1
                       /\ usent[Len(usent)].to = d.a
                       /\ ulast.err # "ErrInvalidAddr"
            /\ \A i \in DOMAIN usent :
                  /\ usent[i].to.net = udpT.net
                  /\ Contains(udpT.dest, usent[i].to.IP)

C9_Witness ==
    /\ ulast.op = "WriteMessage"
    /\ ulast.dst.kind = "addr"
    /\ ulast.dst.a.net # udpT.net
    /\ Contains(udpT.dest, ulast.dst.a.IP)
    /\ ulast.err = "ErrInvalidAddr"
    /\ Len(usent) = 1
    /\ ulast.before = 1

\* C10: for every address a built by NewAddr, decodeAddress of
\* a.MarshalJSON() succeeds and returns an address Equal to a with the same
\* network tag.  Stated here for the addresses most favourable to the claim:
\* a well-formed IP (4 or 16 bytes) that is not the unspecified address.
C10_JsonRoundTrip ==
    /\ uaddr.err = "nil"
    /\ uaddr.a.IP.form \in {"v4", "v4in6", "v6"} /\ ~IsUnspecified(uaddr.a.IP)
    /\ udec.err # "none"
    /\ udec.data = MarshalJSON(uaddr.a)
    =>
        /\ udec.err = "nil"
        /\ Equal(udec.a, uaddr.a)
        /\ udec.a.net = uaddr.a.net

\* the network Open works with, and what the claim calls an address or a
\* destination network of the other IP family
EffectiveNetwork(c) == IF c.Network = "" THEN "udp4" ELSE c.Network

BadNetwork(c) == EffectiveNetwork(c) \notin {"udp4", "udp6"}

OtherFamilyAddr(c) ==
    \/ EffectiveNetwork(c) = "udp4" /\ c.Addr = "[::1]:0"
    \/ EffectiveNetwork(c) = "udp6" /\ c.Addr = "127.0.0.1:0"

OtherFamilyDest(c) ==
    \/ EffectiveNetwork(c) = "udp4" /\ c.Dest \in {"::0/0", "fe80::1/128"}
    \/ EffectiveNetwork(c) = "udp6" /\ c.Dest \in {"0.0.0.0/0", "10.0.0.1/32"}

ZeroConfigOpens ==
    cfg = [Network |-> "", Addr |-> "", Dest |-> ""] /\ opened.state = "done" =>
        /\ opened.bound
        /\ opened.err = "nil" =>
              opened.t = [net |-> "udp4", laddr |-> NilIP,
                          dest |-> [fam |-> "v4", host |-> 0, all |-> TRUE]]

C12_NewAddrErrors ==
    eaddr.called =>
        /\ DOMAIN eaddr.keys = {} => eaddr.err = "ErrNoKeys"
        /\ DOMAIN eaddr.keys # {} /\ eaddr.addrs = <<>> => eaddr.err = "ErrNoAddress"
        /\ DOMAIN eaddr.keys # {} /\ eaddr.addrs # <<>> /\ eaddr.err # "nil" =>
              /\ eaddr.err \notin {"ErrNoKeys", "ErrNoAddress"}
              /\ \E c \in DOMAIN eaddr.parts.m \ DOMAIN eaddr.keys :
                    ~eaddr.parts.m[c].hex
        /\ eaddr.err # "nil" <=> eaddr.addr.nil

C12_Witness ==
    /\ eaddr.called
    /\ DOMAIN eaddr.keys = {}
    /\ eaddr.addrs = <<>>
    /\ eaddr.err = "ErrNoKeys"
    /\ eaddr.addr.nil

\* C13: every Addr returned by e3x.NewAddr has, for every csid in keys, the
\* part derived from keys[csid] (whatever part the caller passed for it), keeps
\* the caller's parts of the csids without a key, and its hashname is the
\* rolling hash over exactly these parts in ascending csid order.
C13_AddrIdentity ==
    eaddr.called /\ ~eaddr.addr.nil =>
        LET a == eaddr.addr
        IN  /\ a.keys = eaddr.keys
            /\ DOMAIN a.parts = DOMAIN eaddr.keys \cup DOMAIN eaddr.parts.m
            /\ \A c \in DOMAIN eaddr.keys : a.parts[c] = PartFromKey(eaddr.keys[c])
            /\ \A c \in DOMAIN eaddr.parts.m \ DOMAIN eaddr.keys :
                  a.parts[c] = eaddr.parts.m[c]
            /\ Len(a.hashname) = Cardinality(DOMAIN a.parts)
            /\ \A i \in 1..Len(a.hashname) :
                  /\ a.hashname[i].csid \in DOMAIN a.parts
                  /\ a.hashname[i].inter = a.parts[a.hashname[i].csid].of
                  /\ \A j \in 1..Len(a.hashname) :
                        i < j => a.hashname[i].csid < a.hashname[j].csid

C13_Witness ==
    /\ eaddr.called
    /\ ~eaddr.addr.nil
    /\ \E c \in DOMAIN eaddr.keys \cap DOMAIN eaddr.parts.m :
          eaddr.parts.m[c] # PartFromKey(eaddr.keys[c])
    /\ \E c \in DOMAIN eaddr.parts.m : c \notin DOMAIN eaddr.keys
    /\ Len(eaddr.addr.hashname) = 3

\* C14: a packet for an id that is not in the channel table, with seq 0 and a
\* type, creates one channel registered under that id as non-initiator, is
\* delivered to it and starts its user handler exactly once; a packet for an
\* id that is in the table goes to that channel and neither creates a channel
\* nor starts a handler. (Stated for the packets that make_channel and the
\* channel accept.)
C14_InboundOpensOnce ==
    /\ rlast.err \notin {"none", "pending", "make_channel error", "channel error"}
       /\ rlast.pkt.C # ""
       /\ rlast.pkt.C \notin DOMAIN rlast.pre.channels /\ first_packet(rlast.pkt) =>
          /\ rlast.err = "nil"
          /\ rlast.made # NilChan
          /\ rlast.to = rlast.made
          /\ rlast.reg = rlast.made
          /\ rlast.post.chans[rlast.made].id = rlast.pkt.C
          /\ ~rlast.post.chans[rlast.made].initiator
          /\ rlast.post.chans[rlast.made].handlers = 1
    /\ rlast.err \notin {"none", "pending"} /\ rlast.pkt.C \in DOMAIN rlast.pre.channels =>
          /\ rlast.to = rlast.pre.channels[rlast.pkt.C]
          /\ rlast.made = NilChan
          /\ rlast.post = rlast.pre
    /\ \A c \in 1..Len(chans) : chans[c].handlers <= 1

\* C15: snd_pkt_blocking hands no packet to a nil line; called with no line
\* it starts an open-line attempt and waits; and a sender that waits while
\* line L is active gets to send its packet over L unless the line changes.
C15_BlockedSenderSends ==
    /\ [](\A t \in Senders : snd[t].pc = "sending" =>
              snd[t].line # NilLine /\ snd[t].line = pline)
    /\ [][\A t \in Senders :
              snd[t].pc = "idle" /\ snd'[t].op = "snd_pkt_blocking" /\ pline = NilLine =>
                  /\ opening'.spawned = opening.spawned + 1
                  /\ snd'[t].pc = "wait"
                  /\ nsent' = nsent]_vars
    /\ \A t \in Senders : \A l \in Lines :
          (snd[t].pc \in {"wait", "asleep"} /\ pline = l)
              ~> ((snd[t].pc = "sending" /\ snd[t].line = l) \/ pline # l)

C15_Witness ==
    \E t \in Senders :
        /\ snd[t].pc = "sending"
        /\ snd[t].op = "snd_pkt_blocking"
        /\ snd[t].waited
        /\ snd[t].line = pline
        /\ opening.spawned > 0

\* C16: a task that is sending a packet (in snd_pkt, in snd_pkt_blocking, or
\* in the loop of tick that sends the acks) holds the peer mutex neither
\* shared nor exclusive.
C16_NoLockAcrossSend ==
    /\ \A t \in Senders : snd[t].pc = "sending" => mtx.w # t /\ t \notin mtx.r
    /\ tk.pc = "scan" => mtx.w # "tick" /\ "tick" \notin mtx.r

\* C17: snd_pkt on a peer without a line returns errNoOpenLine, hands no
\* packet to a line, starts no open-line attempt and leaves the line and the
\* channel table as they were.
C17_NoLineNoSend ==
    slast.op = "snd_pkt" /\ slast.pre.line = NilLine =>
        /\ slast.err = "errNoOpenLine"
        /\ slast.post = slast.pre
        /\ snd[slast.t].pc # "sending" \/ snd[slast.t].op # "snd_pkt"

C17_Witness ==
    /\ slast.op = "snd_pkt"
    /\ slast.pre.line = NilLine
    /\ slast.err = "errNoOpenLine"
    /\ opening.spawned = 0

\* C18: deactivate_line(L) sets the line to nil when L is the active line and
\* leaves it alone otherwise, so after activate_line(L1), activate_line(L2),
\* deactivate_line(L1) the line is L2; and while a line is active no sender
\* sleeps without having been signalled.
C18_DeactivateOnlyCurrent ==
    /\ llast.op = "deactivate_line" =>
          pline = IF llast.pre = llast.arg THEN NilLine ELSE llast.pre
    /\ pline # NilLine =>
          \A t \in Senders : snd[t].pc \in {"wait", "asleep"} => snd[t].sig

C18_Witness ==
    /\ llast.op = "deactivate_line"
    /\ llast.arg = 1
    /\ llast.pre = 2
    /\ llast.prev = "activate_line"
    /\ llast.prevArg = 2
    /\ pline = 2

\* C19: a tick takes out of the channel table exactly the channels that
\* reported is_closed() in its loop and keeps every other one, the channels
\* added while it ran included.
C19_TickRemovesClosed ==
    tlast.done =>
        tlast.post = [id \in {i \in DOMAIN tlast.pre : tlast.pre[i] \notin tlast.reported}
                        |-> tlast.pre[id]]

\* C20: a packet with an empty channel id, or for an id that is not in the
\* table with seq unset, seq other than 0 or an empty type, returns
\* errInvalidPkt, makes no channel, starts no handler and leaves the table
\* as it was.
C20_MalformedRejected ==
    /\ rlast.err \notin {"none", "pending"}
    /\ \/ rlast.pkt.C = ""
       \/ /\ rlast.pkt.C \notin DOMAIN rlast.pre.channels
          /\ ~first_packet(rlast.pkt)
    => /\ rlast.err = "errInvalidPkt"
       /\ rlast.made = NilChan
       /\ rlast.to = NilChan
       /\ rlast.post = rlast.pre

\* C21: a frame whose token has no packet route when it is looked up is
\* returned to the caller with the length and the source address the wrapped
\* transport gave and is never written to the wrapped transport; an error of
\* the wrapped read is returned at once, without a lookup and without a write.
C21_UnroutedPassesThrough ==
    /\ \A id \in DOMAIN wire :
          LET passed == id < nread \/ rd.id # id \/ rd.pc # "lookup"
              isRouted == \E r \in routed : r.id = id
          IN  /\ wire[id].err =>
                    /\ ~isRouted
                    /\ WritesOf(id) = {}
                    /\ Cardinality({i \in DOMAIN delivered :
                                       delivered[i].id = id /\ delivered[i].err}) = 1
              /\ ~wire[id].err /\ passed /\ ~isRouted =>
                    /\ WritesOf(id) = {}
                    /\ Cardinality({i \in DOMAIN delivered : delivered[i].id = id}) = 1
                    /\ \A i \in DOMAIN delivered :
                          delivered[i].id = id =>
                              /\ ~delivered[i].err
                              /\ delivered[i].n = Len(wire[id].f)
                              /\ delivered[i].src = wire[id].src
    /\ rd.pc = "idle" /\ rd.id # 0 => buf(rd) = wire[rd.id].f

C21_Witness ==
    /\ \E i \in DOMAIN delivered :
          /\ ~delivered[i].err
          /\ delivered[i].n = 4
          /\ MapGet(handshakeRoutes, ExtractToken(wire[delivered[i].id].f)) # NilEx
    /\ \E i \in DOMAIN delivered : delivered[i].err
    /\ fwd = <<>>

\* C22: when the write of a routed frame fails, the error is not returned to
\* the caller: the frame is not delivered, it is written once and not again,
\* the step leaves the route tables alone and the reader goes on to read the
\* next frame.
C22_FailedForwardDropped ==
    /\ [](\A i \in DOMAIN fwd :
              fwd[i].err =>
                  /\ \A j \in DOMAIN delivered : delivered[j].id # fwd[i].id
                  /\ Cardinality(WritesOf(fwd[i].id)) = 1
                  /\ rd.id = fwd[i].id => rd.pc = "read")
    /\ [][Len(fwd') > Len(fwd) /\ fwd'[Len(fwd')].err =>
              /\ packetRoutes' = packetRoutes
              /\ handshakeRoutes' = handshakeRoutes
              /\ delivered' = delivered
              /\ rd'.pc = "read"]_vars

C22_Witness ==
    /\ Len(fwd) = 1
    /\ fwd[1].err
    /\ nread = 2
    /\ rd.pc = "lookup"

\* C23: after RouteToken(t, s, g) with g non-nil lookupToken(t) returns (s, g);
\* RouteToken(t, s, nil) sets the packet route and leaves the handshake table
\* as it was; BreakRoute(t) takes t out of both tables, also when it was in
\* neither; and the entries of every other token stay as they were.
C23_RouteTableUpdates ==
    LET t == bridgeLast.arg
        P == bridgeLast.preP
        H == bridgeLast.preH
        othersKept ==
            \A u \in Tokens \ {t} :
                /\ u \in DOMAIN P <=> u \in DOMAIN packetRoutes
                /\ u \in DOMAIN H <=> u \in DOMAIN handshakeRoutes
                /\ u \in DOMAIN P => packetRoutes[u] = P[u]
                /\ u \in DOMAIN H => handshakeRoutes[u] = H[u]
    IN  /\ bridgeLast.op = "RouteToken" =>
              /\ othersKept
              /\ t \in DOMAIN packetRoutes
              /\ lookupToken(t).source = bridgeLast.source
              /\ IF bridgeLast.target # NilEx
                 THEN lookupToken(t) = [source |-> bridgeLast.source,
                                        target |-> bridgeLast.target]
                 ELSE handshakeRoutes = H
        /\ bridgeLast.op = "BreakRoute" =>
              /\ othersKept
              /\ t \notin DOMAIN packetRoutes
              /\ t \notin DOMAIN handshakeRoutes
              /\ lookupToken(t) = [source |-> NilEx, target |-> NilEx]
              /\ t \notin DOMAIN P /\ t \notin DOMAIN H =>
                    packetRoutes = P /\ handshakeRoutes = H

C23_Witness ==
    /\ bridgeLast.op = "RouteToken"
    /\ bridgeLast.target = NilEx
    /\ bridgeLast.arg \in DOMAIN bridgeLast.preH
    /\ bridgeLast.preP[bridgeLast.arg] # bridgeLast.source
    /\ handshakeRoutes[bridgeLast.arg] # NilEx
    /\ \E u \in DOMAIN packetRoutes : u # bridgeLast.arg

\* C27: every token with a handshake route has a packet route.
C27_HandshakeKeysInPacketKeys ==
    DOMAIN handshakeRoutes \subseteq DOMAIN packetRoutes

C27_Witness ==
    /\ bridgeLast.op = "on_exchange_closed"
    /\ bridgeOps = 3
    /\ handshakeRoutes # EmptyMap
    /\ DOMAIN handshakeRoutes # DOMAIN packetRoutes

\* C28: whenever no Break call is under way, the priority is at least
\* -3 minus the number of Demote calls made so far, however the Break,
\* Demote and ResetPriority calls of the goroutines were interleaved.
C28_BreakAtomic ==
    (\A t \in Threads : brk[t].pc = "idle") =>
        Priority(path) >= -3 - run.dem

\* C24: UnmarshalJSON returns an error and leaves the category, IP, port and
\* priority delta of the receiver as they were when the JSON is malformed,
\* has no or an empty ip, has no port or port 0, or does not parse to an IPv4
\* path; otherwise it returns nil and the receiver is the parsed path.
C24_UnmarshalAtomic ==
    ujson.called =>
        LET doc == ujson.doc
            bad == \/ ~doc.syntax
                   \/ doc.ip.k # "string" \/ doc.ip.s = ""
                   \/ doc.port.k # "number" \/ doc.port.n = 0
                   \/ ujson.parsed.kind # "ipv4"
        IN  IF bad
            THEN /\ ujson.err # "nil"
                 /\ ujson.post.cat = ujson.pre.cat
                 /\ ujson.post.IP = ujson.pre.IP
                 /\ ujson.post.Port = ujson.pre.Port
                 /\ ujson.post.priority_delta = ujson.pre.priority_delta
            ELSE /\ ujson.err = "nil"
                 /\ ujson.post = ujson.parsed.o

C24_Witness ==
    /\ ujson.called
    /\ ujson.err # "nil"
    /\ ujson.parsed.kind = "other"
    /\ ujson.pre.IP = IPv4(2)
    /\ ujson.pre.priority_delta = -2
    /\ path.priority_delta = -2

\* C25: a chord client call whose target host is not in the address table
\* when the call looks it up returns ErrNoAddress, opens no channel and
\* leaves the address table as it was.
C25_NoAddressNoChannel ==
    clast.who = "client" /\ clast.host \notin DOMAIN clast.pre =>
        /\ clast.err = "ErrNoAddress"
        /\ clast.ch = 0
        /\ clast.post = clast.pre

C25_Witness ==
    /\ clast.who = "client"
    /\ clast.err = "ErrNoAddress"
    /\ clast.host = "h2"
    /\ "h1" \in DOMAIN clast.pre
    /\ Len(cchans) = 2
    /\ hd.pc = "run"

\* C26: a channel is open only while the client call that opened it or the
\* handler it was handed to is still running: when a call or a handler has
\* returned, whatever the outcome, or has panicked, its channel is closed.
C26_NoChannelLeak ==
    /\ \A i \in DOMAIN cchans :
          cchans[i].open =>
              \/ cli.pc = "io" /\ cli.ch = i
              \/ hd.pc = "run" /\ hd.ch = i
    /\ clast.ch # 0 => ~cchans[clast.ch].open

C26_Witness ==
    /\ clast.who = "handler"
    /\ clast.err = "no RPC"
    /\ \E i \in DOMAIN cchans : cchans[i].by = "client" /\ ~cchans[i].open
    /\ cli.pc = "panic"

=============================================================================
